---- MODULE Spec2Model ----
(***************************************************************************)
(* Admission and lifecycle engine of the catalog page (CatalogPage):       *)
(*   - the room lifecycle resolver (getRoomWindow, getRoomState),          *)
(*   - the RSVP registration handler (handleRegisterForSelectedRoom): the  *)
(*     read of the existing record, the runTransaction on                  *)
(*     rooms/{room}/rsvp_config and the two-path record update.            *)
(* The realtime database is modelled by the values stored under the paths  *)
(* the handler touches; every client session is one catalog page.          *)
(***************************************************************************)
EXTENDS Integers, Sequences, FiniteSets, TLC

\* ------------------------------------------------------------------ bounds
\* Number of client sessions (catalog pages) registering concurrently.
NumClients == 3
\* Largest capacity an administrator has stored in rsvp_config.
MaxCapacity == 2
\* Number of register invocations made in all, over all client sessions.
MaxCalls == 3
\* Largest timestamp of a window; the clock runs from 0 to MaxTime + 1.
MaxTime == 3

Clients == 1..NumClients
Users == 1..NumClients
Times == 0..(MaxTime + 1)

\* ------------------------------------------------------- program constants
RSVP_STATUS ==
    [REGISTERED |-> "registered", WAITLISTED |-> "waitlisted", CANCELLED |-> "cancelled"]

DEFAULT_CAPACITY == 100

DEFAULT_RSVP_CONFIG ==
    [rsvpOpen |-> TRUE, capacity |-> DEFAULT_CAPACITY, bookedCount |-> 0, waitlistCount |-> 0]

ConfigFields == {"rsvpOpen", "capacity", "bookedCount", "waitlistCount"}

\* A JavaScript object is a function on the keys it has; null and {} have none.
EmptyObject == [k \in {} |-> 0]

\* ------------------------------------------------------------- variables
VARIABLES
    \* the database
    room,                \* rooms/{room}: isLive and event_config
    rsvp_config,         \* rooms/{room}/rsvp_config
    roomRsvps,           \* rooms/{room}/rsvps/{user}: the status, "" when absent
    userRsvpsDb,         \* users/{user}/rsvps/{room}: the status, "" when absent
    \* the environment
    dateNow,             \* Date.now()
    owner,               \* rsvpOwnerId of each client session
    \* each catalog page
    pc,                  \* where handleRegisterForSelectedRoom is suspended
    seenCfg,             \* the value the transaction's update function last ran on
    assignedStatus,      \* let assignedStatus of the handler
    registeringRoom,     \* useState registeringRoom
    selectedRoomForRsvp, \* useState selectedRoomForRsvp
    userRsvps,           \* useState userRsvps: the status for the room, "" when none
    error,               \* useState error
    notice,              \* useState notice
    outcomes,            \* what each completed register invocation reported
    \* the resolver
    roomState,           \* the value getRoomState last returned
    \* the catalog
    roomsDb,             \* the rooms node: isLive and event_config of every room
    rooms,               \* useState rooms: the entries of the last snapshot, sorted
    userRsvpsMap,        \* useState userRsvps, the status by room id, "" when none
    lastRoomId,          \* profile.lastRoomId, "" when none
    nowMs,               \* useState nowMs
    yourShows,           \* useMemo yourShows
    upcomingShows,       \* useMemo upcomingShows
    currentShows,        \* useMemo currentShows
    \* the join of a room
    audience_index,      \* rooms/{room}/audience_index/{user}
    audience_data,       \* audience_data/{room}: the keys of the session records
    nextKey,             \* the next key push() hands out
    joinPc,              \* where the handleJoinRoom that pushed the key is suspended
    joinClient,          \* the client session that pushed the key
    joinPayload,         \* the object it hands to update(indexRef, ...)
    joiningRoom,         \* useState joiningRoom
    joinWrites,          \* the index updates stored so far, in their order
    overlapped,          \* a join started while another one was running
    \* the countdown gate
    selectedLockedRoom,  \* useState selectedLockedRoom
    timerSet,            \* the interval of WaitingScreen exists and is not cleared
    rechecks             \* the locked rooms of the handleLockedTimerFinished that
                         \* wait for get(roomRef)

storeVars == <<room, rsvp_config, roomRsvps, userRsvpsDb>>
pageVars == <<pc, seenCfg, assignedStatus, registeringRoom, selectedRoomForRsvp,
              userRsvps, error, notice, outcomes>>
shows == <<yourShows, upcomingShows, currentShows>>
catalogVars == <<roomsDb, rooms, userRsvpsMap, lastRoomId, nowMs, shows>>
\* What the register handler and the resolver never touch.
joinVars == <<audience_index, audience_data, nextKey, joinPc, joinClient, joinPayload,
              joiningRoom, joinWrites, overlapped>>
gateVars == <<selectedLockedRoom, timerSet, rechecks>>
restVars == <<catalogVars, joinVars, gateVars>>
vars == <<room, rsvp_config, roomRsvps, userRsvpsDb, dateNow, owner, pc, seenCfg,
          assignedStatus, registeringRoom, selectedRoomForRsvp, userRsvps, error,
          notice, outcomes, roomState, catalogVars, joinVars, gateVars>>

\* ------------------------------------------------------ lifecycle resolver
JsUndefined == [type |-> "undefined"]
JsNumber(n) == [type |-> "number", value |-> n]

\* obj[key] of a JavaScript object holding numbers.
Prop(obj, key) == IF key \in DOMAIN obj THEN JsNumber(obj[key]) ELSE JsUndefined

parseTimeToMs(value) ==
    IF value.type = "number" THEN value.value ELSE 0

getRoomWindow(r) ==
    LET cfg == r.eventConfig
    IN  [startTimeMs |-> parseTimeToMs(Prop(cfg, "startTimeMs")),
         endTimeMs |-> parseTimeToMs(Prop(cfg, "endTimeMs"))]

\* getRoomState with the end instant still inside the window.
getRoomState_EndInclusive(r, now) ==
    LET startTimeMs == getRoomWindow(r).startTimeMs
        endTimeMs == getRoomWindow(r).endTimeMs
    IN  IF startTimeMs # 0 /\ now < startTimeMs THEN "upcoming"
        ELSE IF endTimeMs # 0 /\ now > endTimeMs THEN "ended"
        ELSE IF r.isLive THEN "current"
        ELSE IF startTimeMs # 0 /\ now >= startTimeMs /\ (endTimeMs = 0 \/ now <= endTimeMs)
             THEN "current"
        ELSE "upcoming"

\* getRoomState with the live flag tested before the end of the window.
getRoomState_LiveFirst(r, now) ==
    LET startTimeMs == getRoomWindow(r).startTimeMs
        endTimeMs == getRoomWindow(r).endTimeMs
    IN  IF startTimeMs # 0 /\ now < startTimeMs THEN "upcoming"
        ELSE IF r.isLive THEN "current"
        ELSE IF endTimeMs # 0 /\ now >= endTimeMs THEN "ended"
        ELSE IF startTimeMs # 0 /\ now >= startTimeMs /\ (endTimeMs = 0 \/ now < endTimeMs)
             THEN "current"
        ELSE "upcoming"

\* getRoomState without the live flag's rule.
getRoomState_NoLive(r, now) ==
    LET startTimeMs == getRoomWindow(r).startTimeMs
        endTimeMs == getRoomWindow(r).endTimeMs
    IN  IF startTimeMs # 0 /\ now < startTimeMs THEN "upcoming"
        ELSE IF endTimeMs # 0 /\ now >= endTimeMs THEN "ended"
        ELSE IF startTimeMs # 0 /\ now >= startTimeMs /\ (endTimeMs = 0 \/ now < endTimeMs)
             THEN "current"
        ELSE "upcoming"

\* getRoomState that tests the end of the window before its start.
getRoomState_EndFirst(r, now) ==
    LET startTimeMs == getRoomWindow(r).startTimeMs
        endTimeMs == getRoomWindow(r).endTimeMs
    IN  IF endTimeMs # 0 /\ now >= endTimeMs THEN "ended"
        ELSE IF startTimeMs # 0 /\ now < startTimeMs THEN "upcoming"
        ELSE IF r.isLive THEN "current"
        ELSE IF startTimeMs # 0 /\ now >= startTimeMs /\ (endTimeMs = 0 \/ now < endTimeMs)
             THEN "current"
        ELSE "upcoming"

\* getRoomState with the live flag tested before the start of the window.
getRoomState_LiveOpensEarly(r, now) ==
    LET startTimeMs == getRoomWindow(r).startTimeMs
        endTimeMs == getRoomWindow(r).endTimeMs
    IN  IF endTimeMs # 0 /\ now >= endTimeMs /\ ~(startTimeMs # 0 /\ now < startTimeMs)
        THEN "ended"
        ELSE IF r.isLive THEN "current"
        ELSE IF startTimeMs # 0 /\ now < startTimeMs THEN "upcoming"
        ELSE IF startTimeMs # 0 /\ now >= startTimeMs /\ (endTimeMs = 0 \/ now < endTimeMs)
             THEN "current"
        ELSE "upcoming"

\* getRoomState that takes the room for ended at the end instant only.
getRoomState_EndedAtEndOnly(r, now) ==
    LET startTimeMs == getRoomWindow(r).startTimeMs
        endTimeMs == getRoomWindow(r).endTimeMs
    IN  IF startTimeMs # 0 /\ now < startTimeMs THEN "upcoming"
        ELSE IF endTimeMs # 0 /\ now = endTimeMs THEN "ended"
        ELSE IF r.isLive THEN "current"
        ELSE IF startTimeMs # 0 /\ now >= startTimeMs /\ (endTimeMs = 0 \/ now < endTimeMs)
             THEN "current"
        ELSE "upcoming"

getRoomState(r, now) ==
    LET startTimeMs == getRoomWindow(r).startTimeMs
        endTimeMs == getRoomWindow(r).endTimeMs
    IN  IF startTimeMs # 0 /\ now < startTimeMs THEN "upcoming"
        ELSE IF endTimeMs # 0 /\ now >= endTimeMs THEN "ended"
        ELSE IF r.isLive THEN "current"
        ELSE IF startTimeMs # 0 /\ now >= startTimeMs /\ (endTimeMs = 0 \/ now < endTimeMs)
             THEN "current"
        ELSE "upcoming"

\* The event_config values drawn: each timestamp a number or absent.
EventConfigs ==
    UNION {[D -> 0..MaxTime] : D \in SUBSET {"startTimeMs", "endTimeMs"}}

Rooms == [id : {"room1"}, isLive : BOOLEAN, eventConfig : EventConfigs]

NoRoom == [id |-> ""]

\* ------------------------------------------------------- capacity ledger
\* isActiveRsvpStatus that knows the registered status only.
isActiveRsvpStatus_RegisteredOnly(status) ==
    status = "registered"

isActiveRsvpStatus(status) ==
    status = RSVP_STATUS.REGISTERED \/ status = RSVP_STATUS.WAITLISTED

\* The merge that takes every field from the defaults.
MergeCfg_StoredFieldsDropped(current) ==
    [f \in ConfigFields |-> DEFAULT_RSVP_CONFIG[f]]

\* { ...DEFAULT_RSVP_CONFIG, ...(current || {}) }
MergeCfg(current) ==
    [f \in ConfigFields |->
        IF f \in DOMAIN current THEN current[f] ELSE DEFAULT_RSVP_CONFIG[f]]

\* The update function admitting one registration more than the capacity.
txUpdate_OffByOne(current, assigned) ==
    LET cfg == [f \in ConfigFields |->
                   IF f \in DOMAIN current THEN current[f] ELSE DEFAULT_RSVP_CONFIG[f]]
    IN  IF cfg.rsvpOpen = FALSE
        THEN [aborted |-> TRUE, cfg |-> current, assignedStatus |-> assigned]
        ELSE IF cfg.capacity > 0 /\ cfg.bookedCount > cfg.capacity
        THEN [aborted |-> FALSE,
              cfg |-> [cfg EXCEPT !.waitlistCount = cfg.waitlistCount + 1],
              assignedStatus |-> "waitlisted"]
        ELSE [aborted |-> FALSE,
              cfg |-> [cfg EXCEPT !.bookedCount = cfg.bookedCount + 1],
              assignedStatus |-> "registered"]

\* The update function without the test of rsvpOpen.
txUpdate_NoAbort(current, assigned) ==
    LET cfg == [f \in ConfigFields |->
                   IF f \in DOMAIN current THEN current[f] ELSE DEFAULT_RSVP_CONFIG[f]]
    IN  IF cfg.capacity > 0 /\ cfg.bookedCount >= cfg.capacity
        THEN [aborted |-> FALSE,
              cfg |-> [cfg EXCEPT !.waitlistCount = cfg.waitlistCount + 1],
              assignedStatus |-> "waitlisted"]
        ELSE [aborted |-> FALSE,
              cfg |-> [cfg EXCEPT !.bookedCount = cfg.bookedCount + 1],
              assignedStatus |-> "registered"]

\* The update function that puts a user on the waitlist without counting it.
txUpdate_WaitlistNotCounted(current, assigned) ==
    LET cfg == [f \in ConfigFields |->
                   IF f \in DOMAIN current THEN current[f] ELSE DEFAULT_RSVP_CONFIG[f]]
    IN  IF cfg.rsvpOpen = FALSE
        THEN [aborted |-> TRUE, cfg |-> current, assignedStatus |-> assigned]
        ELSE IF cfg.capacity > 0 /\ cfg.bookedCount >= cfg.capacity
        THEN [aborted |-> FALSE, cfg |-> cfg, assignedStatus |-> "waitlisted"]
        ELSE [aborted |-> FALSE,
              cfg |-> [cfg EXCEPT !.bookedCount = cfg.bookedCount + 1],
              assignedStatus |-> "registered"]

\* The update function that counts a granted seat twice.
txUpdate_SeatCountedTwice(current, assigned) ==
    LET cfg == [f \in ConfigFields |->
                   IF f \in DOMAIN current THEN current[f] ELSE DEFAULT_RSVP_CONFIG[f]]
    IN  IF cfg.rsvpOpen = FALSE
        THEN [aborted |-> TRUE, cfg |-> current, assignedStatus |-> assigned]
        ELSE IF cfg.capacity > 0 /\ cfg.bookedCount >= cfg.capacity
        THEN [aborted |-> FALSE,
              cfg |-> [cfg EXCEPT !.waitlistCount = cfg.waitlistCount + 1],
              assignedStatus |-> "waitlisted"]
        ELSE [aborted |-> FALSE,
              cfg |-> [cfg EXCEPT !.bookedCount = cfg.bookedCount + 2],
              assignedStatus |-> "registered"]

\* The update function that gives up a seat for every waitlist place.
txUpdate_SeatGivenUp(current, assigned) ==
    LET cfg == [f \in ConfigFields |->
                   IF f \in DOMAIN current THEN current[f] ELSE DEFAULT_RSVP_CONFIG[f]]
    IN  IF cfg.rsvpOpen = FALSE
        THEN [aborted |-> TRUE, cfg |-> current, assignedStatus |-> assigned]
        ELSE IF cfg.capacity > 0 /\ cfg.bookedCount >= cfg.capacity
        THEN [aborted |-> FALSE,
              cfg |-> [cfg EXCEPT !.waitlistCount = cfg.waitlistCount + 1,
                                  !.bookedCount = cfg.bookedCount - 1],
              assignedStatus |-> "waitlisted"]
        ELSE [aborted |-> FALSE,
              cfg |-> [cfg EXCEPT !.bookedCount = cfg.bookedCount + 1],
              assignedStatus |-> "registered"]

\* The update function handed to runTransaction, run on the value current with
\* the handler's variable assignedStatus holding assigned. aborted: it returned
\* undefined; otherwise cfg is the value it returned.
txUpdate(current, assigned) ==
    LET cfg == MergeCfg(current)
        capacity == cfg.capacity
        bookedCount == cfg.bookedCount
        waitlistCount == cfg.waitlistCount
    IN  IF cfg.rsvpOpen = FALSE
        THEN [aborted |-> TRUE, cfg |-> current, assignedStatus |-> assigned]
        ELSE IF capacity > 0 /\ bookedCount >= capacity
        THEN [aborted |-> FALSE,
              cfg |-> [cfg EXCEPT !.waitlistCount = waitlistCount + 1],
              assignedStatus |-> RSVP_STATUS.WAITLISTED]
        ELSE [aborted |-> FALSE,
              cfg |-> [cfg EXCEPT !.bookedCount = bookedCount + 1],
              assignedStatus |-> RSVP_STATUS.REGISTERED]

\* An update that writes the room-side record only.
rsvpUpdates_RoomOnly(status) ==
    [path \in {"roomRsvp"} |-> status]

\* A store that rejects a proposed value only when the open flag has changed.
txConflict_OpenFlagOnly(stored, seen) ==
    MergeCfg(stored).rsvpOpen # MergeCfg(seen).rsvpOpen

\* A store that accepts every proposed value (a plain write, no transaction).
txConflict_Never(stored, seen) ==
    FALSE

\* The updates object handed to update(ref(db), updates): the paths it writes
\* (the room-side and the user-side record) and the status each payload carries.
rsvpUpdates(status) ==
    [path \in {"roomRsvp", "userRsvp"} |-> status]

\* Whether the server rejects a transaction's proposed value: the path no
\* longer holds the value the update function ran on.
txConflict(stored, seen) ==
    stored # seen

\* An entry of the page's rooms list, built from a snapshot of rooms/{id}.
roomEntry(r, config) ==
    [id |-> r.id, isLive |-> r.isLive, eventConfig |-> r.eventConfig,
     rsvpConfig |-> MergeCfg(config)]

\* The values of rsvp_config a room starts with: none stored, or an open
\* configuration with its counters at 0.
InitConfigs ==
    {EmptyObject} \cup
    {[rsvpOpen |-> TRUE, capacity |-> k, bookedCount |-> 0, waitlistCount |-> 0] :
        k \in 0..MaxCapacity}

\* Which user each client session is signed in as: every session its own user,
\* or the first two sessions the same user on two devices.
OwnerMaps ==
    {m \in [Clients -> Users] :
        /\ m[1] = 1
        /\ m[2] \in {1, 2}
        /\ \A c \in Clients \ {1, 2} : m[c] = m[c - 1] + 1}

\* Number of register invocations started so far.
RECURSIVE SumCalls(_, _)
SumCalls(f, S) ==
    IF S = {} THEN 0
    ELSE LET c == CHOOSE x \in S : TRUE
         IN  f[c] + SumCalls(f, S \ {c})

\* The room the registrations are about: it opens at MaxTime.
LedgerRoom ==
    [id |-> "room1", isLive |-> FALSE,
     eventConfig |-> [k \in {"startTimeMs"} |-> MaxTime]]

\* The ids of the rooms of the catalog, in the order of localeCompare.
RoomIds == <<"room1", "room2", "room3">>

\* The catalog page before its first rooms snapshot, no room stored.
CatalogAtRest ==
    /\ roomsDb = EmptyObject
    /\ rooms = <<>>
    /\ userRsvpsMap = EmptyObject
    /\ lastRoomId = ""
    /\ nowMs = 0
    /\ yourShows = <<>>
    /\ upcomingShows = <<>>
    /\ currentShows = <<>>

\* The keys push() hands out for audience_data/{room}, in their order.
Keys == 1..MaxCalls

\* No join was started.
JoinAtRest ==
    /\ audience_index = EmptyObject
    /\ audience_data = {}
    /\ nextKey = 1
    /\ joinPc = [k \in Keys |-> "none"]
    /\ joinClient = [k \in Keys |-> 0]
    /\ joinPayload = [k \in Keys |-> EmptyObject]
    /\ joiningRoom = [c \in Clients |-> ""]
    /\ joinWrites = <<>>
    /\ overlapped = FALSE

\* No room is locked.
GateAtRest ==
    /\ selectedLockedRoom = [c \in Clients |-> NoRoom]
    /\ timerSet = [c \in Clients |-> FALSE]
    /\ rechecks = [c \in Clients |-> <<>>]

\* The register handler and the resolver before anything was invoked.
LedgerAtRest ==
    /\ room = LedgerRoom
    /\ rsvp_config = EmptyObject
    /\ roomRsvps = [u \in Users |-> ""]
    /\ userRsvpsDb = [u \in Users |-> ""]
    /\ pc = [c \in Clients |-> "idle"]
    /\ seenCfg = [c \in Clients |-> EmptyObject]
    /\ assignedStatus = [c \in Clients |-> ""]
    /\ registeringRoom = [c \in Clients |-> ""]
    /\ selectedRoomForRsvp = [c \in Clients |-> NoRoom]
    /\ userRsvps = [c \in Clients |-> ""]
    /\ error = [c \in Clients |-> ""]
    /\ notice = [c \in Clients |-> ""]
    /\ outcomes = [c \in Clients |-> <<>>]
    /\ roomState = "none"

\* finally { setRegisteringRoom('') } and the end of the invocation, with which
\* its local variables are gone.
Finished(c, outcome) ==
    /\ registeringRoom' = [registeringRoom EXCEPT ![c] = ""]
    /\ pc' = [pc EXCEPT ![c] = "idle"]
    /\ seenCfg' = [seenCfg EXCEPT ![c] = EmptyObject]
    /\ assignedStatus' = [assignedStatus EXCEPT ![c] = ""]
    /\ outcomes' = [outcomes EXCEPT ![c] = Append(@, outcome)]

\* The Confirm button that stays enabled while a register is running.
confirmDisabled_NotWhileRegistering(c) ==
    selectedRoomForRsvp[c].rsvpConfig.rsvpOpen = FALSE

\* disabled of the Confirm button of the RSVP sheet.
confirmDisabled(c) ==
    registeringRoom[c] # "" \/ selectedRoomForRsvp[c].rsvpConfig.rsvpOpen = FALSE

\* handleRegisterForSelectedRoom that does not resolve the room's state.
RegisterStart_NoStateCheck(c) ==
    /\ selectedRoomForRsvp[c] # NoRoom
    /\ ~confirmDisabled(c)
    /\ SumCalls([x \in Clients |-> Len(outcomes[x]) + IF pc[x] = "idle" THEN 0 ELSE 1],
                Clients) < MaxCalls
    /\ error' = [error EXCEPT ![c] = ""]
    /\ notice' = [notice EXCEPT ![c] = ""]
    /\ registeringRoom' = [registeringRoom EXCEPT ![c] = selectedRoomForRsvp[c].id]
    /\ pc' = [pc EXCEPT ![c] = "get"]
    /\ UNCHANGED <<selectedRoomForRsvp, outcomes>>
    /\ UNCHANGED <<storeVars, dateNow, owner, restVars, seenCfg, assignedStatus, userRsvps, roomState>>

\* The Confirm button is pressed: handleRegisterForSelectedRoom up to its
\* first await. The handler itself does not look at registeringRoom.
RegisterStart(c) ==
    /\ selectedRoomForRsvp[c] # NoRoom
    /\ ~confirmDisabled(c)
    /\ SumCalls([x \in Clients |-> Len(outcomes[x]) + IF pc[x] = "idle" THEN 0 ELSE 1],
                Clients) < MaxCalls
    /\ IF getRoomState(selectedRoomForRsvp[c], dateNow) # "upcoming"
       THEN /\ selectedRoomForRsvp' = [selectedRoomForRsvp EXCEPT ![c] = NoRoom]
            /\ error' = [error EXCEPT ![c] = "Registration closed for this room."]
            /\ notice' = [notice EXCEPT ![c] = ""]
            /\ outcomes' = [outcomes EXCEPT ![c] = Append(@, "closed")]
            /\ UNCHANGED <<pc, registeringRoom>>
       ELSE /\ error' = [error EXCEPT ![c] = ""]
            /\ notice' = [notice EXCEPT ![c] = ""]
            /\ registeringRoom' = [registeringRoom EXCEPT ![c] = selectedRoomForRsvp[c].id]
            /\ pc' = [pc EXCEPT ![c] = "get"]
            /\ UNCHANGED <<selectedRoomForRsvp, outcomes>>
    /\ UNCHANGED <<storeVars, dateNow, owner, restVars, seenCfg, assignedStatus, userRsvps, roomState>>

\* await get(existingRef) answers: the short-circuit on an active record, or the
\* start of runTransaction, whose update function first runs on the value the
\* client holds for the path (none, or the stored one).
GetExisting(c) ==
    /\ pc[c] = "get"
    /\ IF roomRsvps[owner[c]] # "" /\ isActiveRsvpStatus(roomRsvps[owner[c]])
       THEN /\ selectedRoomForRsvp' = [selectedRoomForRsvp EXCEPT ![c] = NoRoom]
            /\ notice' = [notice EXCEPT ![c] = "Already " \o roomRsvps[owner[c]]]
            /\ Finished(c, "already " \o roomRsvps[owner[c]])
       ELSE /\ \E view \in {EmptyObject, rsvp_config} :
                seenCfg' = [seenCfg EXCEPT ![c] = view]
            /\ assignedStatus' = [assignedStatus EXCEPT ![c] = ""]
            /\ pc' = [pc EXCEPT ![c] = "run"]
            /\ UNCHANGED <<selectedRoomForRsvp, notice, registeringRoom, outcomes>>
    /\ UNCHANGED <<storeVars, dateNow, owner, restVars, userRsvps, error, roomState>>

\* The handler that reports an aborted transaction like a store failure.
TxRun_ClosedReportedAsFailure(c) ==
    /\ pc[c] = "run"
    /\ LET r == txUpdate(seenCfg[c], assignedStatus[c])
       IN  IF r.aborted
           THEN /\ error' = [error EXCEPT ![c] = "Failed to register. Please retry."]
                /\ notice' = [notice EXCEPT ![c] = ""]
                /\ Finished(c, "refused")
           ELSE /\ assignedStatus' = [assignedStatus EXCEPT ![c] = r.assignedStatus]
                /\ pc' = [pc EXCEPT ![c] = "sent"]
                /\ UNCHANGED <<error, notice, registeringRoom, outcomes, seenCfg>>
    /\ UNCHANGED <<storeVars, dateNow, owner, restVars, selectedRoomForRsvp, userRsvps, roomState>>

\* The handler that keeps the status its first run of the update function
\* assigned.
TxRun_FirstRunStatusKept(c) ==
    /\ pc[c] = "run"
    /\ LET r == txUpdate(seenCfg[c], assignedStatus[c])
       IN  IF r.aborted
           THEN /\ error' = [error EXCEPT ![c] = "RSVP is currently closed for this room."]
                /\ notice' = [notice EXCEPT ![c] = ""]
                /\ Finished(c, "refused")
           ELSE /\ assignedStatus' = [assignedStatus EXCEPT ![c] =
                        IF @ # "" THEN @ ELSE r.assignedStatus]
                /\ pc' = [pc EXCEPT ![c] = "sent"]
                /\ UNCHANGED <<error, notice, registeringRoom, outcomes, seenCfg>>
    /\ UNCHANGED <<storeVars, dateNow, owner, restVars, selectedRoomForRsvp, userRsvps, roomState>>

\* One run of the update function on seenCfg. Returning undefined ends the
\* transaction uncommitted: the handler reports the RSVP as closed.
TxRun(c) ==
    /\ pc[c] = "run"
    /\ LET r == txUpdate(seenCfg[c], assignedStatus[c])
       IN  IF r.aborted
           THEN /\ error' = [error EXCEPT ![c] = "RSVP is currently closed for this room."]
                /\ notice' = [notice EXCEPT ![c] = ""]
                /\ Finished(c, "refused")
           ELSE /\ assignedStatus' = [assignedStatus EXCEPT ![c] = r.assignedStatus]
                /\ pc' = [pc EXCEPT ![c] = "sent"]
                /\ UNCHANGED <<error, notice, registeringRoom, outcomes, seenCfg>>
    /\ UNCHANGED <<storeVars, dateNow, owner, restVars, selectedRoomForRsvp, userRsvps, roomState>>

\* The server's answer to the proposed value: it is stored when the path still
\* holds the value the function ran on; otherwise the function runs again on
\* the value now stored.
TxServer(c) ==
    /\ pc[c] = "sent"
    /\ IF ~txConflict(rsvp_config, seenCfg[c])
       THEN /\ rsvp_config' = txUpdate(seenCfg[c], assignedStatus[c]).cfg
            /\ IF assignedStatus[c] = ""
               THEN /\ error' = [error EXCEPT ![c] = "RSVP is currently closed for this room."]
                    /\ notice' = [notice EXCEPT ![c] = ""]
                    /\ Finished(c, "refused")
               ELSE /\ pc' = [pc EXCEPT ![c] = "write"]
                    /\ UNCHANGED <<error, notice, registeringRoom, outcomes, seenCfg,
                                   assignedStatus>>
       ELSE /\ seenCfg' = [seenCfg EXCEPT ![c] = rsvp_config]
            /\ pc' = [pc EXCEPT ![c] = "run"]
            /\ UNCHANGED <<rsvp_config, error, notice, registeringRoom, outcomes,
                           assignedStatus>>
    /\ UNCHANGED <<room, roomRsvps, userRsvpsDb, dateNow, owner, restVars,
                   selectedRoomForRsvp, userRsvps, roomState>>

\* The record write that counts the user in rsvp_config once more.
WriteRecords_CountsAgain(c) ==
    /\ pc[c] = "write"
    /\ LET updates == rsvpUpdates(assignedStatus[c])
       IN  /\ roomRsvps' = IF "roomRsvp" \in DOMAIN updates
                           THEN [roomRsvps EXCEPT ![owner[c]] = updates["roomRsvp"]]
                           ELSE roomRsvps
           /\ userRsvpsDb' = IF "userRsvp" \in DOMAIN updates
                             THEN [userRsvpsDb EXCEPT ![owner[c]] = updates["userRsvp"]]
                             ELSE userRsvpsDb
    /\ userRsvps' = [userRsvps EXCEPT ![c] = assignedStatus[c]]
    /\ selectedRoomForRsvp' = [selectedRoomForRsvp EXCEPT ![c] = NoRoom]
    /\ notice' = [notice EXCEPT ![c] =
            IF assignedStatus[c] = RSVP_STATUS.REGISTERED
            THEN "Registered" ELSE "Added to waitlist"]
    /\ error' = [error EXCEPT ![c] = ""]
    /\ Finished(c, assignedStatus[c])
    /\ rsvp_config' = [MergeCfg(rsvp_config) EXCEPT !.bookedCount = @ + 1]
    /\ UNCHANGED <<room, dateNow, owner, restVars, roomState>>

\* The record write after which the page opens the countdown of the room
\* and leaves the sheet open.
WriteRecords_OpensCountdown(c) ==
    /\ pc[c] = "write"
    /\ LET updates == rsvpUpdates(assignedStatus[c])
       IN  /\ roomRsvps' = IF "roomRsvp" \in DOMAIN updates
                           THEN [roomRsvps EXCEPT ![owner[c]] = updates["roomRsvp"]]
                           ELSE roomRsvps
           /\ userRsvpsDb' = IF "userRsvp" \in DOMAIN updates
                             THEN [userRsvpsDb EXCEPT ![owner[c]] = updates["userRsvp"]]
                             ELSE userRsvpsDb
    /\ userRsvps' = [userRsvps EXCEPT ![c] = assignedStatus[c]]
    /\ selectedLockedRoom' = [selectedLockedRoom EXCEPT ![c] = selectedRoomForRsvp[c]]
    /\ notice' = [notice EXCEPT ![c] =
            IF assignedStatus[c] = RSVP_STATUS.REGISTERED
            THEN "Registered" ELSE "Added to waitlist"]
    /\ error' = [error EXCEPT ![c] = ""]
    /\ Finished(c, assignedStatus[c])
    /\ UNCHANGED <<room, rsvp_config, dateNow, owner, roomState, selectedRoomForRsvp,
                   catalogVars, joinVars, timerSet, rechecks>>

\* await update(ref(db), updates) succeeds: both records are stored in one
\* multi-path update, then the page's state follows.
WriteRecords(c) ==
    /\ pc[c] = "write"
    /\ LET updates == rsvpUpdates(assignedStatus[c])
       IN  /\ roomRsvps' = IF "roomRsvp" \in DOMAIN updates
                           THEN [roomRsvps EXCEPT ![owner[c]] = updates["roomRsvp"]]
                           ELSE roomRsvps
           /\ userRsvpsDb' = IF "userRsvp" \in DOMAIN updates
                             THEN [userRsvpsDb EXCEPT ![owner[c]] = updates["userRsvp"]]
                             ELSE userRsvpsDb
    /\ userRsvps' = [userRsvps EXCEPT ![c] = assignedStatus[c]]
    /\ selectedRoomForRsvp' = [selectedRoomForRsvp EXCEPT ![c] = NoRoom]
    /\ notice' = [notice EXCEPT ![c] =
            IF assignedStatus[c] = RSVP_STATUS.REGISTERED
            THEN "Registered" ELSE "Added to waitlist"]
    /\ error' = [error EXCEPT ![c] = ""]
    /\ Finished(c, assignedStatus[c])
    /\ UNCHANGED <<room, rsvp_config, dateNow, owner, restVars, roomState>>

\* The catch block of a handler that has no finally: the busy flag stays set.
StoreFails_BusyFlagKept(c) ==
    /\ pc[c] \in {"get", "sent", "write"}
    /\ error' = [error EXCEPT ![c] = "Failed to register. Please retry."]
    /\ notice' = [notice EXCEPT ![c] = ""]
    /\ pc' = [pc EXCEPT ![c] = "idle"]
    /\ seenCfg' = [seenCfg EXCEPT ![c] = EmptyObject]
    /\ assignedStatus' = [assignedStatus EXCEPT ![c] = ""]
    /\ outcomes' = [outcomes EXCEPT ![c] = Append(@, "failed")]
    /\ UNCHANGED <<storeVars, dateNow, owner, restVars, selectedRoomForRsvp, userRsvps,
                   roomState, registeringRoom>>

\* A store request of the handler is rejected (the read, the transaction while
\* it waits for the server, or the record update): the catch block.
StoreFails(c) ==
    /\ pc[c] \in {"get", "sent", "write"}
    /\ error' = [error EXCEPT ![c] = "Failed to register. Please retry."]
    /\ notice' = [notice EXCEPT ![c] = ""]
    /\ Finished(c, "failed")
    /\ UNCHANGED <<storeVars, dateNow, owner, restVars, selectedRoomForRsvp, userRsvps, roomState>>

\* The room's operator closes the RSVP list.
OperatorClosesRsvp ==
    /\ MergeCfg(rsvp_config).rsvpOpen
    /\ rsvp_config' =
          [f \in DOMAIN rsvp_config \cup {"rsvpOpen"} |->
              IF f = "rsvpOpen" THEN FALSE ELSE rsvp_config[f]]
    /\ UNCHANGED <<room, roomRsvps, userRsvpsDb, dateNow, owner, restVars, pageVars, roomState>>

Init ==
    /\ room = LedgerRoom
    /\ rsvp_config \in InitConfigs
    /\ roomRsvps = [u \in Users |-> ""]
    /\ userRsvpsDb = [u \in Users |-> ""]
    /\ dateNow \in {MaxTime - 1, MaxTime}
    /\ owner \in OwnerMaps
    /\ pc = [c \in Clients |-> "idle"]
    /\ seenCfg = [c \in Clients |-> EmptyObject]
    /\ assignedStatus = [c \in Clients |-> ""]
    /\ registeringRoom = [c \in Clients |-> ""]
    /\ selectedRoomForRsvp = [c \in Clients |-> roomEntry(room, rsvp_config)]
    /\ userRsvps = [c \in Clients |-> ""]
    /\ error = [c \in Clients |-> ""]
    /\ notice = [c \in Clients |-> ""]
    /\ outcomes = [c \in Clients |-> <<>>]
    /\ roomState = "none"
    /\ CatalogAtRest
    /\ JoinAtRest
    /\ GateAtRest

Next ==
    \/ \E c \in Clients : RegisterStart(c)
    \/ \E c \in Clients : GetExisting(c)
    \/ \E c \in Clients : TxRun(c)
    \/ \E c \in Clients : TxServer(c)
    \/ \E c \in Clients : WriteRecords(c)
    \/ \E c \in Clients : StoreFails(c)
    \/ OperatorClosesRsvp

Spec == Init /\ [][Next]_vars

\* The store answers every request it does not reject, and the event loop runs
\* every continuation that is due: no handler stays suspended for ever at an
\* await whose promise can settle.
Answered ==
    \A c \in Clients :
        /\ WF_vars(GetExisting(c))
        /\ WF_vars(TxRun(c))
        /\ WF_vars(TxServer(c))
        /\ WF_vars(WriteRecords(c))

SpecAnswered == Spec /\ Answered

\* ------------------------------- the update function on sparse configurations
\* The values of rsvp_config the room may start with: any of the four fields
\* stored or missing.
SparseConfigs ==
    {[f \in D |-> full[f]] :
        full \in [rsvpOpen : {TRUE}, capacity : 0..MaxCapacity, bookedCount : 0..1,
                  waitlistCount : {0}],
        D \in SUBSET ConfigFields}

\* The register call of one more user, alone on the room: its transaction runs
\* on the stored value and commits, and the status it assigned is reported.
CommitNext ==
    /\ Len(outcomes[1]) < DEFAULT_CAPACITY + 2
    /\ LET r == txUpdate(rsvp_config, "")
       IN  /\ ~r.aborted
           /\ rsvp_config' = r.cfg
           /\ outcomes' = [outcomes EXCEPT ![1] = Append(@, r.assignedStatus)]
    /\ UNCHANGED <<room, roomRsvps, userRsvpsDb, dateNow, owner, restVars, pc, seenCfg,
                   assignedStatus, registeringRoom, selectedRoomForRsvp, userRsvps, error,
                   notice, roomState>>

InitSparse ==
    /\ room = LedgerRoom
    /\ rsvp_config \in SparseConfigs
    /\ roomRsvps = [u \in Users |-> ""]
    /\ userRsvpsDb = [u \in Users |-> ""]
    /\ dateNow = 0
    /\ owner = [c \in Clients |-> c]
    /\ pc = [c \in Clients |-> "idle"]
    /\ seenCfg = [c \in Clients |-> EmptyObject]
    /\ assignedStatus = [c \in Clients |-> ""]
    /\ registeringRoom = [c \in Clients |-> ""]
    /\ selectedRoomForRsvp = [c \in Clients |-> NoRoom]
    /\ userRsvps = [c \in Clients |-> ""]
    /\ error = [c \in Clients |-> ""]
    /\ notice = [c \in Clients |-> ""]
    /\ outcomes = [c \in Clients |-> <<>>]
    /\ roomState = "none"
    /\ CatalogAtRest
    /\ JoinAtRest
    /\ GateAtRest

NextSparse == CommitNext

SpecSparse == InitSparse /\ [][NextSparse]_vars

\* ------------------------------------------- the resolver on bounded inputs
\* One evaluation of getRoomState on the room and the time drawn.
Resolve ==
    /\ roomState = "none"
    /\ roomState' = getRoomState(room, dateNow)
    /\ UNCHANGED <<storeVars, dateNow, owner, restVars, pageVars>>

InitResolver ==
    /\ room \in Rooms
    /\ dateNow \in Times
    /\ roomState = "none"
    /\ rsvp_config = EmptyObject
    /\ roomRsvps = [u \in Users |-> ""]
    /\ userRsvpsDb = [u \in Users |-> ""]
    /\ owner = [c \in Clients |-> c]
    /\ pc = [c \in Clients |-> "idle"]
    /\ seenCfg = [c \in Clients |-> EmptyObject]
    /\ assignedStatus = [c \in Clients |-> ""]
    /\ registeringRoom = [c \in Clients |-> ""]
    /\ selectedRoomForRsvp = [c \in Clients |-> NoRoom]
    /\ userRsvps = [c \in Clients |-> ""]
    /\ error = [c \in Clients |-> ""]
    /\ notice = [c \in Clients |-> ""]
    /\ outcomes = [c \in Clients |-> <<>>]
    /\ CatalogAtRest
    /\ JoinAtRest
    /\ GateAtRest

NextResolver == Resolve

SpecResolver == InitResolver /\ [][NextResolver]_vars

\* ------------------------------------------------------ catalog aggregator
roomStateRank(state) ==
    IF state = "current" THEN 0
    ELSE IF state = "upcoming" THEN 1
    ELSE 2

\* Number.MAX_SAFE_INTEGER, above every timestamp.
MAX_SAFE_INTEGER == 2147483647

\* a.localeCompare(b) of two room ids: negative, 0 or positive.
localeCompare(a, b) ==
    LET pos(id) == CHOOSE i \in 1..Len(RoomIds) : RoomIds[i] = id
    IN  pos(a) - pos(b)

\* getRoomWindow(a).startTimeMs || Number.MAX_SAFE_INTEGER
startOrMax(a) ==
    IF getRoomWindow(a).startTimeMs # 0
    THEN getRoomWindow(a).startTimeMs
    ELSE MAX_SAFE_INTEGER

\* The comparator of entries.sort in the rooms listener.
entriesCompare(a, b, now) ==
    LET stateDiff == roomStateRank(getRoomState(a, now)) - roomStateRank(getRoomState(b, now))
        aStart == startOrMax(a)
        bStart == startOrMax(b)
    IN  IF stateDiff # 0 THEN stateDiff
        ELSE IF aStart # bStart THEN aStart - bStart
        ELSE localeCompare(a.id, b.id)

\* The comparator of userRooms.sort that leaves the last room where it is.
userRoomsCompare_NoLastRoom(a, b, last, now) ==
    LET stateDiff == roomStateRank(getRoomState(a, now)) - roomStateRank(getRoomState(b, now))
        aStart == startOrMax(a)
        bStart == startOrMax(b)
    IN  IF stateDiff # 0 THEN stateDiff
        ELSE IF aStart # bStart THEN aStart - bStart
        ELSE localeCompare(a.id, b.id)

\* The comparator of userRooms.sort in yourShows.
userRoomsCompare(a, b, last, now) ==
    LET stateDiff == roomStateRank(getRoomState(a, now)) - roomStateRank(getRoomState(b, now))
        aStart == startOrMax(a)
        bStart == startOrMax(b)
    IN  IF last # "" /\ a.id = last THEN -1
        ELSE IF last # "" /\ b.id = last THEN 1
        ELSE IF stateDiff # 0 THEN stateDiff
        ELSE IF aStart # bStart THEN aStart - bStart
        ELSE localeCompare(a.id, b.id)

\* Array.prototype.sort: a stable sort, every element put behind the elements
\* the comparator does not place after it. compareFn[a, b] is the comparator's
\* value on the elements a and b of the array.
ArraySort(array, compareFn) ==
    LET sorted[n \in 0..Len(array)] ==
            IF n = 0 THEN <<>>
            ELSE LET done == sorted[n - 1]
                     x == array[n]
                     k == Cardinality({i \in 1..Len(done) : compareFn[done[i], x] <= 0})
                 IN  SubSeq(done, 1, k) \o <<x>> \o SubSeq(done, k + 1, Len(done))
    IN  sorted[Len(array)]

\* The entries the rooms listener builds from a snapshot, in key order.
snapshotEntries(data) ==
    [i \in 1..Len(RoomIds) |->
        [id |-> RoomIds[i],
         isLive |-> data[RoomIds[i]].isLive,
         eventConfig |-> data[RoomIds[i]].event_config]]

\* userRsvps?.[room.id]?.status
rsvpStatusOf(map, id) == IF id \in DOMAIN map THEN map[id] ELSE ""

\* The caller is signed in: rsvpOwnerId is not empty.
yourShowsOf(roomList, rsvps, last, now) ==
    LET userRooms == SelectSeq(roomList,
                         LAMBDA r : isActiveRsvpStatus(rsvpStatusOf(rsvps, r.id)))
        elements == {userRooms[i] : i \in 1..Len(userRooms)}
        compareFn == [a \in elements, b \in elements |-> userRoomsCompare(a, b, last, now)]
    IN  ArraySort(userRooms, compareFn)

yourSetOf(yours) == {yours[i].id : i \in 1..Len(yours)}

\* upcomingShows that keeps the caller's rooms.
upcomingShowsOf_WithYours(roomList, yourSet, now) ==
    SelectSeq(roomList, LAMBDA r : getRoomState(r, now) = "upcoming")

upcomingShowsOf(roomList, yourSet, now) ==
    SelectSeq(roomList, LAMBDA r : getRoomState(r, now) = "upcoming" /\ r.id \notin yourSet)

\* currentShows that goes by the live flag alone, not by the window.
currentShowsOf_LiveFlagOnly(roomList, yourSet, now) ==
    SelectSeq(roomList, LAMBDA r : r.isLive /\ r.id \notin yourSet)

\* currentShows that takes every room that is not upcoming.
currentShowsOf_NotUpcoming(roomList, yourSet, now) ==
    SelectSeq(roomList, LAMBDA r : getRoomState(r, now) # "upcoming" /\ r.id \notin yourSet)

currentShowsOf(roomList, yourSet, now) ==
    SelectSeq(roomList, LAMBDA r : getRoomState(r, now) = "current" /\ r.id \notin yourSet)

\* The render after a change of rooms or nowMs: the three memos follow.
Render ==
    /\ yourShows' = yourShowsOf(rooms', userRsvpsMap', lastRoomId', nowMs')
    /\ upcomingShows' = upcomingShowsOf(rooms', yourSetOf(yourShows'), nowMs')
    /\ currentShows' = currentShowsOf(rooms', yourSetOf(yourShows'), nowMs')

\* The schedules the catalog's rooms are drawn with: a start unset or before
\* MaxTime, an end unset or at MaxTime.
CatalogConfigs ==
    {[startTimeMs |-> st, endTimeMs |-> en] : st \in 0..(MaxTime - 1), en \in {0, MaxTime}}

\* The room documents drawn. The live flag is drawn for the rooms without a
\* start only: with a start set getRoomState returns the same with and
\* without it.
CatalogDocs ==
    {d \in [isLive : BOOLEAN, event_config : CatalogConfigs] :
        d.isLive => d.event_config.startTimeMs = 0}

CatalogStore == [{RoomIds[i] : i \in 1..Len(RoomIds)} -> CatalogDocs]

\* The RSVP records of the caller: for each room none or one of a status.
CatalogRsvps ==
    [{RoomIds[i] : i \in 1..Len(RoomIds)} -> {"", "registered", "waitlisted", "cancelled"}]

\* onValue(roomsRef, ...): the snapshot's entries, sorted with Date.now().
RoomsListener ==
    /\ rooms' = LET entries == snapshotEntries(roomsDb)
                    elements == {entries[i] : i \in 1..Len(entries)}
                    compareFn == [a \in elements, b \in elements |->
                                     entriesCompare(a, b, dateNow)]
                IN  ArraySort(entries, compareFn)
    /\ UNCHANGED <<roomsDb, userRsvpsMap, lastRoomId, nowMs, dateNow>>
    /\ Render
    /\ UNCHANGED <<storeVars, owner, pageVars, roomState, joinVars, gateVars>>

\* A second passes and the page's interval runs setNowMs(Date.now()).
ClockTick ==
    /\ dateNow < MaxTime
    /\ dateNow' = dateNow + 1
    /\ nowMs' = dateNow'
    /\ UNCHANGED <<roomsDb, rooms, userRsvpsMap, lastRoomId>>
    /\ Render
    /\ UNCHANGED <<storeVars, owner, pageVars, roomState, joinVars, gateVars>>

InitCatalog ==
    /\ LedgerAtRest
    /\ JoinAtRest
    /\ GateAtRest
    /\ owner = [c \in Clients |-> c]
    /\ dateNow = 1
    /\ nowMs = dateNow
    /\ roomsDb \in CatalogStore
    /\ rooms = <<>>
    /\ userRsvpsMap \in CatalogRsvps
    /\ lastRoomId \in {"", RoomIds[Len(RoomIds)]}
    /\ yourShows = <<>>
    /\ upcomingShows = <<>>
    /\ currentShows = <<>>

NextCatalog ==
    \/ RoomsListener
    \/ ClockTick

SpecCatalog == InitCatalog /\ [][NextCatalog]_vars

\* ------------------------------------------------------ audience join writer
\* The index update that takes the time of the call as firstSeen every time.
indexPayload_AlwaysNow(entry, key, now) ==
    [firstSeen |-> now, lastSeen |-> now, lastSessionKey |-> key]

\* The object handleJoinRoom hands to update(indexRef, ...), built when get()
\* has answered with entry (no key: the entry does not exist). The identity
\* fields (userId, username, email, phone, role) are the same in every join
\* of the user and are left out.
indexPayload(entry, key, now) ==
    [firstSeen |-> IF entry # EmptyObject THEN entry.firstSeen ELSE now,
     lastSeen |-> now,
     lastSessionKey |-> key]

\* update(ref, values): the children named are overwritten, the others kept.
updateNode(node, values) ==
    [k \in DOMAIN node \cup DOMAIN values |->
        IF k \in DOMAIN values THEN values[k] ELSE node[k]]

\* The client sessions that join: two devices of the user.
JoinSessions == {c \in Clients : c <= 2}

\* The invocations of handleJoinRoom that have not returned.
JoinsInFlight == {k \in Keys : joinPc[k] \in {"set", "get", "update", "profile"}}

\* handleJoinRoom up to await set(userRef, ...), the profile complete: the
\* busy flag is set and a key is pushed for the session record.
handleJoinRoom(c) ==
    /\ nextKey \in Keys
    /\ error' = [error EXCEPT ![c] = ""]
    /\ notice' = [notice EXCEPT ![c] = ""]
    /\ joiningRoom' = [joiningRoom EXCEPT ![c] = room.id]
    /\ joinClient' = [joinClient EXCEPT ![nextKey] = c]
    /\ joinPc' = [joinPc EXCEPT ![nextKey] = "set"]
    /\ nextKey' = nextKey + 1
    /\ overlapped' = (overlapped \/ JoinsInFlight # {})
    /\ UNCHANGED <<audience_index, audience_data, joinPayload, joinWrites>>

\* A card of a room that is open is pressed. The cards are disabled while
\* joiningRoom or registeringRoom is set.
JoinStart(c) ==
    /\ joiningRoom[c] = ""
    /\ registeringRoom[c] = ""
    /\ handleJoinRoom(c)
    /\ UNCHANGED <<storeVars, dateNow, owner, pc, seenCfg, assignedStatus, registeringRoom,
                   selectedRoomForRsvp, userRsvps, outcomes, roomState, catalogVars, gateVars>>

\* The join that goes on to the index without its session record stored.
SetSession_NothingStored(k) ==
    /\ joinPc[k] = "set"
    /\ audience_data' = audience_data
    /\ joinPc' = [joinPc EXCEPT ![k] = "get"]
    /\ UNCHANGED <<audience_index, nextKey, joinClient, joinPayload, joiningRoom, joinWrites,
                   overlapped>>
    /\ UNCHANGED <<storeVars, dateNow, owner, pageVars, roomState, catalogVars, gateVars>>

\* set(userRef, ...) is stored; get(indexRef) is sent.
SetSession(k) ==
    /\ joinPc[k] = "set"
    /\ audience_data' = audience_data \cup {k}
    /\ joinPc' = [joinPc EXCEPT ![k] = "get"]
    /\ UNCHANGED <<audience_index, nextKey, joinClient, joinPayload, joiningRoom, joinWrites,
                   overlapped>>
    /\ UNCHANGED <<storeVars, dateNow, owner, pageVars, roomState, catalogVars, gateVars>>

\* get(indexRef) answers; firstSeen is taken from the entry or from
\* Date.now(), and update(indexRef, ...) is sent.
GetIndex(k) ==
    /\ joinPc[k] = "get"
    /\ joinPayload' = [joinPayload EXCEPT ![k] = indexPayload(audience_index, k, dateNow)]
    /\ joinPc' = [joinPc EXCEPT ![k] = "update"]
    /\ UNCHANGED <<audience_index, audience_data, nextKey, joinClient, joiningRoom,
                   joinWrites, overlapped>>
    /\ UNCHANGED <<storeVars, dateNow, owner, pageVars, roomState, catalogVars, gateVars>>

\* update(indexRef, ...) is stored.
UpdateIndex(k) ==
    /\ joinPc[k] = "update"
    /\ audience_index' = updateNode(audience_index, joinPayload[k])
    /\ joinWrites' = Append(joinWrites, joinPayload[k])
    /\ joinPc' = [joinPc EXCEPT ![k] = "profile"]
    /\ UNCHANGED <<audience_data, nextKey, joinClient, joinPayload, joiningRoom, overlapped>>
    /\ UNCHANGED <<storeVars, dateNow, owner, pageVars, roomState, catalogVars, gateVars>>

\* update(users/{uid}, {..., lastRoomId}) is stored, the profile follows and
\* the page navigates to the room; the catalog page the user comes back to
\* is mounted anew.
JoinNavigate(k) ==
    /\ joinPc[k] = "profile"
    /\ lastRoomId' = room.id
    /\ joiningRoom' = [joiningRoom EXCEPT ![joinClient[k]] = ""]
    /\ joinPayload' = [joinPayload EXCEPT ![k] = EmptyObject]
    /\ joinPc' = [joinPc EXCEPT ![k] = "joined"]
    /\ UNCHANGED <<audience_index, audience_data, nextKey, joinClient, joinWrites, overlapped>>
    /\ UNCHANGED <<roomsDb, rooms, userRsvpsMap, nowMs, shows>>
    /\ UNCHANGED <<storeVars, dateNow, owner, pageVars, roomState, gateVars>>

\* A store request of handleJoinRoom is rejected: the catch block.
JoinFails(k) ==
    /\ k \in JoinsInFlight
    /\ error' = [error EXCEPT ![joinClient[k]] = "Failed to enter room. Please retry."]
    /\ notice' = [notice EXCEPT ![joinClient[k]] = ""]
    /\ joiningRoom' = [joiningRoom EXCEPT ![joinClient[k]] = ""]
    /\ joinPayload' = [joinPayload EXCEPT ![k] = EmptyObject]
    /\ joinPc' = [joinPc EXCEPT ![k] = "failed"]
    /\ UNCHANGED <<audience_index, audience_data, nextKey, joinClient, joinWrites, overlapped>>
    /\ UNCHANGED <<storeVars, dateNow, owner, pc, seenCfg, assignedStatus, registeringRoom,
                   selectedRoomForRsvp, userRsvps, outcomes, roomState, catalogVars, gateVars>>

\* A second passes.
JoinClock ==
    /\ dateNow < MaxTime
    /\ dateNow' = dateNow + 1
    /\ UNCHANGED <<storeVars, owner, pageVars, roomState, catalogVars, joinVars, gateVars>>

\* Every session is a device of the same user, on the catalog with the room
\* open for entry.
InitJoin ==
    /\ LedgerAtRest
    /\ CatalogAtRest
    /\ JoinAtRest
    /\ GateAtRest
    /\ owner = [c \in Clients |-> 1]
    /\ dateNow = 1

NextJoin ==
    \/ \E c \in JoinSessions : JoinStart(c)
    \/ \E k \in Keys : SetSession(k)
    \/ \E k \in Keys : GetIndex(k)
    \/ \E k \in Keys : UpdateIndex(k)
    \/ \E k \in Keys : JoinNavigate(k)
    \/ \E k \in Keys : JoinFails(k)
    \/ JoinClock

SpecJoin == InitJoin /\ [][NextJoin]_vars

\* ------------------------------------------- the page and its countdown gate
\* The catalog pages followed: one client session.
Pages == {c \in Clients : c <= 1}

\* new Date(startTimeMs).toISOString() and new Date(nextEvent).getTime(): the
\* string holds the milliseconds, which getTime gives back.
toISOString(ms) == [iso |-> ms]
getTime(date) == date.iso

\* nextEvent of the WaitingScreen of the locked room: null without a start.
nextEventIso(locked) ==
    IF getRoomWindow(locked).startTimeMs # 0
    THEN toISOString(getRoomWindow(locked).startTimeMs)
    ELSE [iso |-> 0]

\* The room handleLockedTimerFinished resolves: the stored live flag, and the
\* stored event_config or, when none is stored, the one of the locked entry.
latestRoom(latest, locked) ==
    [id |-> locked.id,
     isLive |-> latest.isLive,
     eventConfig |-> IF latest.eventConfig # EmptyObject
                     THEN latest.eventConfig
                     ELSE locked.eventConfig]

\* What handleLockedTimerFinished does that admits also when the room is
\* still locked.
recheckOutcome_AdmitsLocked(latestState) ==
    [error |-> "", join |-> TRUE]

\* What handleLockedTimerFinished does on the state it resolved; in both
\* cases it first runs setSelectedLockedRoom(null).
recheckOutcome(latestState) ==
    IF latestState = "upcoming"
    THEN [error |-> "Room is still locked. Please wait a little more.", join |-> FALSE]
    ELSE [error |-> "", join |-> TRUE]

\* The state the oldest pending recheck of the page resolves when get()
\* answers now.
latestState(c) ==
    getRoomState(latestRoom(room, Head(rechecks[c])), dateNow)

\* handleRoomAction that opens the countdown for the rooms the user has not
\* registered for and the sheet for the others.
RoomAction_LocksUnregistered(c) ==
    /\ joiningRoom[c] = ""
    /\ registeringRoom[c] = ""
    /\ selectedLockedRoom[c] = NoRoom
    /\ selectedRoomForRsvp[c] = NoRoom
    /\ rooms # <<>>
    /\ LET entry == rooms[1]
           state == getRoomState(entry, nowMs)
           isRegistered == isActiveRsvpStatus(userRsvps[c])
       IN  CASE state = "ended" ->
                  /\ error' = [error EXCEPT ![c] = "This show has ended."]
                  /\ notice' = [notice EXCEPT ![c] = ""]
                  /\ UNCHANGED <<selectedRoomForRsvp, gateVars, joinVars>>
             [] state = "upcoming" /\ isRegistered ->
                  /\ error' = [error EXCEPT ![c] = ""]
                  /\ notice' = [notice EXCEPT ![c] = ""]
                  /\ selectedRoomForRsvp' = [selectedRoomForRsvp EXCEPT ![c] = entry]
                  /\ UNCHANGED <<gateVars, joinVars>>
             [] state = "upcoming" /\ ~isRegistered ->
                  /\ error' = [error EXCEPT ![c] = ""]
                  /\ notice' = [notice EXCEPT ![c] = ""]
                  /\ selectedLockedRoom' = [selectedLockedRoom EXCEPT ![c] = entry]
                  /\ timerSet' = [timerSet EXCEPT ![c] = getTime(nextEventIso(entry)) # 0]
                  /\ UNCHANGED <<selectedRoomForRsvp, rechecks, joinVars>>
             [] OTHER ->
                  /\ handleJoinRoom(c)
                  /\ UNCHANGED <<selectedRoomForRsvp, gateVars>>
    /\ UNCHANGED <<storeVars, dateNow, owner, pc, seenCfg, assignedStatus, registeringRoom,
                   userRsvps, outcomes, roomState, catalogVars>>

\* handleRoomAction without the branch for a room that has ended.
RoomAction_JoinsEnded(c) ==
    /\ joiningRoom[c] = ""
    /\ registeringRoom[c] = ""
    /\ selectedLockedRoom[c] = NoRoom
    /\ selectedRoomForRsvp[c] = NoRoom
    /\ rooms # <<>>
    /\ LET entry == rooms[1]
           state == getRoomState(entry, nowMs)
           isRegistered == isActiveRsvpStatus(userRsvps[c])
       IN  CASE state = "upcoming" /\ ~isRegistered ->
                  /\ error' = [error EXCEPT ![c] = ""]
                  /\ notice' = [notice EXCEPT ![c] = ""]
                  /\ selectedRoomForRsvp' = [selectedRoomForRsvp EXCEPT ![c] = entry]
                  /\ UNCHANGED <<gateVars, joinVars>>
             [] state = "upcoming" /\ isRegistered ->
                  /\ error' = [error EXCEPT ![c] = ""]
                  /\ notice' = [notice EXCEPT ![c] = ""]
                  /\ selectedLockedRoom' = [selectedLockedRoom EXCEPT ![c] = entry]
                  /\ timerSet' = [timerSet EXCEPT ![c] = getTime(nextEventIso(entry)) # 0]
                  /\ UNCHANGED <<selectedRoomForRsvp, rechecks, joinVars>>
             [] OTHER ->
                  /\ handleJoinRoom(c)
                  /\ UNCHANGED <<selectedRoomForRsvp, gateVars>>
    /\ UNCHANGED <<storeVars, dateNow, owner, pc, seenCfg, assignedStatus, registeringRoom,
                   userRsvps, outcomes, roomState, catalogVars>>

\* handleRoomAction(room): a card of the room is pressed. The cards are
\* disabled while joiningRoom or registeringRoom is set; they are not on the
\* screen while a room is locked and lie under the RSVP sheet while it is open.
RoomAction(c) ==
    /\ joiningRoom[c] = ""
    /\ registeringRoom[c] = ""
    /\ selectedLockedRoom[c] = NoRoom
    /\ selectedRoomForRsvp[c] = NoRoom
    /\ rooms # <<>>
    /\ LET entry == rooms[1]
           state == getRoomState(entry, nowMs)
           isRegistered == isActiveRsvpStatus(userRsvps[c])
       IN  CASE state = "ended" ->
                  /\ error' = [error EXCEPT ![c] = "This show has ended."]
                  /\ notice' = [notice EXCEPT ![c] = ""]
                  /\ UNCHANGED <<selectedRoomForRsvp, gateVars, joinVars>>
             [] state = "upcoming" /\ ~isRegistered ->
                  /\ error' = [error EXCEPT ![c] = ""]
                  /\ notice' = [notice EXCEPT ![c] = ""]
                  /\ selectedRoomForRsvp' = [selectedRoomForRsvp EXCEPT ![c] = entry]
                  /\ UNCHANGED <<gateVars, joinVars>>
             [] state = "upcoming" /\ isRegistered ->
                  /\ error' = [error EXCEPT ![c] = ""]
                  /\ notice' = [notice EXCEPT ![c] = ""]
                  /\ selectedLockedRoom' = [selectedLockedRoom EXCEPT ![c] = entry]
                  /\ timerSet' = [timerSet EXCEPT ![c] = getTime(nextEventIso(entry)) # 0]
                  /\ UNCHANGED <<selectedRoomForRsvp, rechecks, joinVars>>
             [] OTHER ->
                  /\ handleJoinRoom(c)
                  /\ UNCHANGED <<selectedRoomForRsvp, gateVars>>
    /\ UNCHANGED <<storeVars, dateNow, owner, pc, seenCfg, assignedStatus, registeringRoom,
                   userRsvps, outcomes, roomState, catalogVars>>

\* The sheet's backdrop is pressed, or its Cancel button, which is disabled
\* while registeringRoom is set.
CloseSheet(c) ==
    /\ selectedRoomForRsvp[c] # NoRoom
    /\ selectedRoomForRsvp' = [selectedRoomForRsvp EXCEPT ![c] = NoRoom]
    /\ UNCHANGED <<storeVars, dateNow, owner, pc, seenCfg, assignedStatus, registeringRoom,
                   userRsvps, error, notice, outcomes, roomState, restVars>>

\* The back button of the locked room's screen; the WaitingScreen unmounts.
LockedBack(c) ==
    /\ selectedLockedRoom[c] # NoRoom
    /\ selectedLockedRoom' = [selectedLockedRoom EXCEPT ![c] = NoRoom]
    /\ timerSet' = [timerSet EXCEPT ![c] = FALSE]
    /\ UNCHANGED <<storeVars, dateNow, owner, pageVars, roomState, catalogVars, joinVars,
                   rechecks>>

\* handleGoHome: the home button of the bottom bar, which is not on the
\* locked room's screen; navigate('/catalog') leaves the page where it is.
GoHome(c) ==
    /\ selectedLockedRoom[c] = NoRoom
    /\ selectedRoomForRsvp' = [selectedRoomForRsvp EXCEPT ![c] = NoRoom]
    /\ selectedLockedRoom' = [selectedLockedRoom EXCEPT ![c] = NoRoom]
    /\ timerSet' = [timerSet EXCEPT ![c] = FALSE]
    /\ UNCHANGED <<storeVars, dateNow, owner, pc, seenCfg, assignedStatus, registeringRoom,
                   userRsvps, error, notice, outcomes, roomState, catalogVars, joinVars,
                   rechecks>>

\* The interval of WaitingScreen finds the start behind it: it is cleared and
\* handleLockedTimerFinished runs up to await get(roomRef).
TimerFinished(c) ==
    /\ selectedLockedRoom[c] # NoRoom
    /\ timerSet[c]
    /\ getTime(nextEventIso(selectedLockedRoom[c])) - dateNow < 0
    /\ Len(rechecks[c]) < MaxCalls
    /\ timerSet' = [timerSet EXCEPT ![c] = FALSE]
    /\ rechecks' = [rechecks EXCEPT ![c] = Append(@, selectedLockedRoom[c])]
    /\ UNCHANGED <<storeVars, dateNow, owner, pageVars, roomState, catalogVars, joinVars,
                   selectedLockedRoom>>

\* get(roomRef) answers a handleLockedTimerFinished: the room is resolved with
\* Date.now(), the locked room is unset, and either the error is set or
\* handleJoinRoom runs up to its first await.
GateRecheck(c) ==
    /\ rechecks[c] # <<>>
    /\ rechecks' = [rechecks EXCEPT ![c] = Tail(@)]
    /\ selectedLockedRoom' = [selectedLockedRoom EXCEPT ![c] = NoRoom]
    /\ timerSet' = [timerSet EXCEPT ![c] = FALSE]
    /\ IF recheckOutcome(latestState(c)).join
       THEN handleJoinRoom(c)
       ELSE /\ error' = [error EXCEPT ![c] = recheckOutcome(latestState(c)).error]
            /\ UNCHANGED <<notice, joinVars>>
    /\ UNCHANGED <<storeVars, dateNow, owner, pc, seenCfg, assignedStatus, registeringRoom,
                   selectedRoomForRsvp, userRsvps, outcomes, roomState, catalogVars>>

\* The catch block that takes the room for open when the read failed.
GateRecheckFails_AssumesUnlock(c) ==
    /\ rechecks[c] # <<>>
    /\ rechecks' = [rechecks EXCEPT ![c] = Tail(@)]
    /\ handleJoinRoom(c)
    /\ UNCHANGED <<storeVars, dateNow, owner, pc, seenCfg, assignedStatus, registeringRoom,
                   selectedRoomForRsvp, userRsvps, outcomes, roomState, catalogVars,
                   selectedLockedRoom, timerSet>>

\* get(roomRef) is rejected: the catch block of handleLockedTimerFinished.
GateRecheckFails(c) ==
    /\ rechecks[c] # <<>>
    /\ rechecks' = [rechecks EXCEPT ![c] = Tail(@)]
    /\ error' = [error EXCEPT ![c] = "Unable to open room right now. Please retry."]
    /\ UNCHANGED <<storeVars, dateNow, owner, pc, seenCfg, assignedStatus, registeringRoom,
                   selectedRoomForRsvp, userRsvps, notice, outcomes, roomState, catalogVars,
                   joinVars, selectedLockedRoom, timerSet>>

\* A second passes and the page's interval runs setNowMs(Date.now()); the
\* render gives the WaitingScreen a new onTimerFinished, so its effect sets
\* the interval anew.
PageTick ==
    /\ dateNow < MaxTime
    /\ dateNow' = dateNow + 1
    /\ nowMs' = dateNow'
    /\ timerSet' = [c \in Clients |->
            selectedLockedRoom[c] # NoRoom /\ getTime(nextEventIso(selectedLockedRoom[c])) # 0]
    /\ UNCHANGED <<storeVars, owner, pageVars, roomState, joinVars, selectedLockedRoom,
                   rechecks, roomsDb, rooms, userRsvpsMap, lastRoomId, shows>>

\* The rooms as stored when the page is opened: live or not; the schedule not
\* stored, stored with the start put off behind MaxTime, or stored with the
\* start at MaxTime - 1 and the end at MaxTime.
PageStoreRooms ==
    [id : {"room1"},
     isLive : BOOLEAN,
     eventConfig : {EmptyObject,
                    [startTimeMs |-> MaxTime + 1, endTimeMs |-> 0],
                    [startTimeMs |-> MaxTime - 1, endTimeMs |-> MaxTime]}]

\* The entry of the room the page holds from an earlier snapshot: not live,
\* without a schedule, or with the start at MaxTime - 1 and the end unset or
\* at MaxTime.
PageCachedRooms ==
    [id : {"room1"},
     isLive : {FALSE},
     eventConfig : {[startTimeMs |-> 0, endTimeMs |-> 0],
                    [startTimeMs |-> MaxTime - 1, endTimeMs |-> 0],
                    [startTimeMs |-> MaxTime - 1, endTimeMs |-> MaxTime]}]

\* The page is opened one second before the start of the scheduled entries.
InitPage ==
    /\ JoinAtRest
    /\ GateAtRest
    /\ room \in PageStoreRooms
    /\ rsvp_config = EmptyObject
    /\ roomsDb = EmptyObject
    /\ \E cached \in PageCachedRooms : rooms = <<roomEntry(cached, rsvp_config)>>
    /\ userRsvpsMap = EmptyObject
    /\ lastRoomId = ""
    /\ nowMs = MaxTime - 2
    /\ yourShows = <<>>
    /\ upcomingShows = <<>>
    /\ currentShows = <<>>
    /\ roomRsvps = [u \in Users |-> ""]
    /\ userRsvpsDb = [u \in Users |-> ""]
    /\ dateNow = MaxTime - 2
    /\ owner = [c \in Clients |-> c]
    /\ pc = [c \in Clients |-> "idle"]
    /\ seenCfg = [c \in Clients |-> EmptyObject]
    /\ assignedStatus = [c \in Clients |-> ""]
    /\ registeringRoom = [c \in Clients |-> ""]
    /\ selectedRoomForRsvp = [c \in Clients |-> NoRoom]
    /\ userRsvps = [c \in Clients |-> ""]
    /\ error = [c \in Clients |-> ""]
    /\ notice = [c \in Clients |-> ""]
    /\ outcomes = [c \in Clients |-> <<>>]
    /\ roomState = "none"

\* The pages that have not navigated to the room: navigate() unmounts the
\* catalog page, and the page is followed up to there.
Mounted == {c \in Pages : \A k \in Keys : ~(joinClient[k] = c /\ joinPc[k] = "joined")}

NextPage ==
    \/ \E c \in Mounted : RoomAction(c)
    \/ \E c \in Mounted : CloseSheet(c)
    \/ \E c \in Mounted : RegisterStart(c)
    \/ \E c \in Pages : GetExisting(c)
    \/ \E c \in Pages : TxRun(c)
    \/ \E c \in Pages : TxServer(c)
    \/ \E c \in Pages : WriteRecords(c)
    \/ \E c \in Pages : StoreFails(c)
    \/ \E c \in Mounted : LockedBack(c)
    \/ \E c \in Mounted : GoHome(c)
    \/ \E c \in Mounted : TimerFinished(c)
    \/ \E c \in Pages : GateRecheck(c)
    \/ \E c \in Pages : GateRecheckFails(c)
    \/ \E k \in Keys : SetSession(k)
    \/ \E k \in Keys : GetIndex(k)
    \/ \E k \in Keys : UpdateIndex(k)
    \/ \E k \in Keys : JoinNavigate(k)
    \/ \E k \in Keys : JoinFails(k)
    \/ PageTick

SpecPage == InitPage /\ [][NextPage]_vars

\* The page with a store that answers the register handler's requests.
SpecPageAnswered == SpecPage /\ Answered

\* ------------------------------------------- one armed room and its countdown
\* The entry of the locked room: the start one second after the screen is
\* opened, the end unset or at MaxTime.
GateRooms ==
    [id : {"room1"},
     isLive : {FALSE},
     eventConfig : {[startTimeMs |-> 1, endTimeMs |-> 0],
                    [startTimeMs |-> 1, endTimeMs |-> MaxTime]}]

\* The room as stored while the countdown runs: live or not, with the
\* schedule of the entry or with none.
GateStoreRooms ==
    [id : {"room1"},
     isLive : BOOLEAN,
     eventConfig : {EmptyObject, [startTimeMs |-> 1, endTimeMs |-> 0]}]

\* The user has registered and has opened the locked room's screen: the
\* room is armed and the countdown interval is set.
InitGate ==
    /\ JoinAtRest
    /\ room \in GateStoreRooms
    /\ rsvp_config = [DEFAULT_RSVP_CONFIG EXCEPT !.bookedCount = 1]
    /\ roomsDb = EmptyObject
    /\ \E locked \in GateRooms :
          /\ rooms = <<roomEntry(locked, rsvp_config)>>
          /\ selectedLockedRoom =
                [c \in Clients |-> IF c \in Pages THEN roomEntry(locked, rsvp_config)
                                   ELSE NoRoom]
    /\ timerSet = [c \in Clients |-> c \in Pages]
    /\ rechecks = [c \in Clients |-> <<>>]
    /\ userRsvpsMap = EmptyObject
    /\ lastRoomId = ""
    /\ nowMs = 0
    /\ yourShows = <<>>
    /\ upcomingShows = <<>>
    /\ currentShows = <<>>
    /\ roomRsvps = [u \in Users |-> IF u \in Pages THEN "registered" ELSE ""]
    /\ userRsvpsDb = [u \in Users |-> IF u \in Pages THEN "registered" ELSE ""]
    /\ dateNow = 0
    /\ owner = [c \in Clients |-> c]
    /\ pc = [c \in Clients |-> "idle"]
    /\ seenCfg = [c \in Clients |-> EmptyObject]
    /\ assignedStatus = [c \in Clients |-> ""]
    /\ registeringRoom = [c \in Clients |-> ""]
    /\ selectedRoomForRsvp = [c \in Clients |-> NoRoom]
    /\ userRsvps = [c \in Clients |-> IF c \in Pages THEN "registered" ELSE ""]
    /\ error = [c \in Clients |-> ""]
    /\ notice = [c \in Clients |-> ""]
    /\ outcomes = [c \in Clients |-> <<>>]
    /\ roomState = "none"

\* The countdown, the page's tick, the recheck and the joins it starts; the
\* user presses nothing.
NextGate ==
    \/ \E c \in Mounted : TimerFinished(c)
    \/ \E c \in Pages : GateRecheck(c)
    \/ \E c \in Pages : GateRecheckFails(c)
    \/ \E k \in Keys : SetSession(k)
    \/ \E k \in Keys : GetIndex(k)
    \/ \E k \in Keys : UpdateIndex(k)
    \/ \E k \in Keys : JoinNavigate(k)
    \/ \E k \in Keys : JoinFails(k)
    \/ PageTick

SpecGate == InitGate /\ [][NextGate]_vars

\* ------------------------------------------------------------ properties
Range(seq) == {seq[i] : i \in 1..Len(seq)}

Last(seq) == seq[Len(seq)]

\* The configuration in force.
Ledger == MergeCfg(rsvp_config)

\* The users one of whose register invocations reported the outcome o.
UsersWith(o) == {owner[c] : c \in {x \in Clients : o \in Range(outcomes[x])}}

\* The admission statuses the user's completed invocations were given.
CompletedStatuses(u) ==
    {s \in {"registered", "waitlisted"} :
        \E c \in Clients : owner[c] = u /\ s \in Range(outcomes[c])}

\* The users with a room-side record of the status.
RecordsWith(status) == {u \in Users : roomRsvps[u] = status}

\* C1: with a capacity C > 0 and counters starting at 0, under every
\* interleaving of concurrent register calls bookedCount never exceeds C and
\* at most C users are reported REGISTERED.
C1_AtMostCapacityRegistered ==
    Ledger.capacity > 0 =>
        /\ Ledger.bookedCount <= Ledger.capacity
        /\ Cardinality(UsersWith("registered")) <= Ledger.capacity

\* Two sessions proposed the last seat from the same value; one is stored, the
\* other's proposal is stale and will be run again.
C1_Witness ==
    \E c \in Clients :
        /\ pc[c] = "sent"
        /\ Ledger.capacity > 0
        /\ Ledger.capacity < DEFAULT_CAPACITY
        /\ Ledger.bookedCount = Ledger.capacity
        /\ MergeCfg(seenCfg[c]).bookedCount = Ledger.capacity - 1
        /\ assignedStatus[c] = "registered"

\* The sessions that have invoked register.
Callers == {c \in Clients : outcomes[c] # <<>> \/ pc[c] # "idle"}

\* N sessions of N distinct users each made one register call for the room
\* while it was upcoming and its RSVP list open; every call has returned (none
\* was cut short by a store error) and nothing is in flight.
AllCompleted ==
    /\ \A c \in Clients : pc[c] = "idle"
    /\ \A c \in Callers :
          Len(outcomes[c]) = 1 /\ outcomes[c][1] \notin {"failed", "closed"}
    /\ \A c, d \in Callers : c # d => owner[c] # owner[d]
    /\ Ledger.rsvpOpen

\* C2: N concurrent register calls by N distinct users against a room of
\* capacity C, 0 < C < N, counters initially 0: once all have completed,
\* exactly C ended REGISTERED and N - C WAITLISTED, and the stored counters are
\* bookedCount = C and waitlistCount = N - C.
C2_ExactlyCapacityRegistered ==
    LET N == Cardinality(Callers)
        C == Ledger.capacity
    IN  (AllCompleted /\ 0 < C /\ C < N) =>
            /\ Cardinality({c \in Callers : outcomes[c][1] = "registered"}) = C
            /\ Cardinality({c \in Callers : outcomes[c][1] = "waitlisted"}) = N - C
            /\ Ledger.bookedCount = C
            /\ Ledger.waitlistCount = N - C

C2_Witness ==
    /\ AllCompleted
    /\ Cardinality(Callers) = NumClients
    /\ Ledger.capacity = 1
    /\ Ledger.waitlistCount = NumClients - 1

\* C3: once a register call of a user has completed REGISTERED or WAITLISTED,
\* a further register call of that user whose read of the record is answered
\* reports that status, starts no transaction and leaves the counters as
\* they are.
C3_SecondRegisterShortCircuits ==
    [][\A c \in Clients :
          (GetExisting(c) /\ CompletedStatuses(owner[c]) # {}) =>
              /\ pc'[c] = "idle"
              /\ \E s \in CompletedStatuses(owner[c]) :
                    Last(outcomes'[c]) = "already " \o s
              /\ rsvp_config' = rsvp_config]_vars

C3_Witness ==
    \E c \in Clients :
        /\ outcomes[c] # <<>>
        /\ Last(outcomes[c]) \in {"already registered", "already waitlisted"}
        /\ CompletedStatuses(owner[c]) # {}

\* C4: a register call whose transaction observes rsvpOpen = false ends
\* REFUSED; the transaction aborts, rsvp_config is unchanged and no room-side
\* or user-side record is written.
C4_ClosedIsRefused ==
    [][\A c \in Clients :
          (pc[c] = "run" /\ MergeCfg(seenCfg[c]).rsvpOpen = FALSE /\ pc'[c] # "run") =>
              /\ pc'[c] = "idle"
              /\ Last(outcomes'[c]) = "refused"
              /\ rsvp_config' = rsvp_config
              /\ roomRsvps' = roomRsvps
              /\ userRsvpsDb' = userRsvpsDb]_vars

C4_Witness ==
    \E c \in Clients :
        /\ outcomes[c] # <<>>
        /\ Last(outcomes[c]) = "refused"
        /\ Ledger.rsvpOpen = FALSE
        /\ roomRsvps[owner[c]] = ""

\* C5: in every reachable state the room-side record and the user-side record
\* of every (room, user) pair both exist with the same status or are both
\* absent.
C5_RecordsAgree ==
    \A u \in Users : roomRsvps[u] = userRsvpsDb[u]

C5_Witness ==
    \E u, v \in Users :
        /\ roomRsvps[u] = "registered" /\ userRsvpsDb[u] = "registered"
        /\ roomRsvps[v] = "waitlisted" /\ userRsvpsDb[v] = "waitlisted"

Admissions(u) ==
    {ci \in Clients \X (1..MaxCalls) :
        /\ owner[ci[1]] = u
        /\ ci[2] <= Len(outcomes[ci[1]])
        /\ outcomes[ci[1]][ci[2]] \in {"registered", "waitlisted"}}

\* No committed transaction is without its record: none is between its commit
\* and its record write, none ended with a store error, and no user was
\* admitted twice.
LedgerSettled ==
    /\ \A c \in Clients : pc[c] # "write"
    /\ \A c \in Clients : "failed" \notin Range(outcomes[c])
    /\ \A u \in Users : Cardinality(Admissions(u)) <= 1

LifecycleRule(startMs, endMs, liveFlag, now) ==
    CASE startMs # 0 /\ now < startMs -> "UPCOMING"
      [] ~(startMs # 0 /\ now < startMs) /\ endMs # 0 /\ now >= endMs -> "ENDED"
      [] ~(startMs # 0 /\ now < startMs) /\ ~(endMs # 0 /\ now >= endMs) /\ liveFlag
            -> "CURRENT"
      [] ~(startMs # 0 /\ now < startMs) /\ ~(endMs # 0 /\ now >= endMs) /\ ~liveFlag
         /\ startMs # 0 /\ now >= startMs /\ (endMs = 0 \/ now < endMs) -> "CURRENT"
      [] OTHER -> "UPCOMING"

\* The name the data model gives to a value of getRoomState.
StateName(state) ==
    CASE state = "upcoming" -> "UPCOMING"
      [] state = "current" -> "CURRENT"
      [] state = "ended" -> "ENDED"
      [] OTHER -> "no state"

\* The window getRoomState worked on.
StartMs == getRoomWindow(room).startTimeMs
EndMs == getRoomWindow(room).endTimeMs

\* C7: getRoomState is a total function of (startMs, endMs, liveFlag, now)
\* whose value is for every input the first matching rule of the data model's
\* ordered list.
C7_ResolverFollowsRules ==
    roomState # "none" =>
        /\ roomState \in {"upcoming", "current", "ended"}
        /\ StateName(roomState) = LifecycleRule(StartMs, EndMs, room.isLive, dateNow)

\* The last rule decided: no schedule and no live flag.
C7_Witness ==
    /\ roomState = "upcoming"
    /\ StartMs = 0
    /\ EndMs # 0
    /\ dateNow < EndMs
    /\ ~room.isLive

\* C8: for a window 0 < startMs < endMs without the live flag the state is
\* UPCOMING before startMs, CURRENT from startMs up to endMs, and ENDED from
\* endMs on, the end instant included.
C8_WindowPhases ==
    (roomState # "none" /\ 0 < StartMs /\ StartMs < EndMs /\ ~room.isLive) =>
        /\ dateNow < StartMs => roomState = "upcoming"
        /\ (StartMs <= dateNow /\ dateNow < EndMs) => roomState = "current"
        /\ dateNow >= EndMs => roomState = "ended"

C8_Witness ==
    /\ roomState = "ended"
    /\ 0 < StartMs
    /\ StartMs < EndMs
    /\ ~room.isLive
    /\ dateNow = EndMs

\* C9: a room without schedule (startMs = 0 and endMs = 0) whose live flag is
\* set is CURRENT at every time.
C9_LiveWithoutSchedule ==
    (roomState # "none" /\ StartMs = 0 /\ EndMs = 0 /\ room.isLive) =>
        roomState = "current"

C9_Witness ==
    /\ roomState = "current"
    /\ StartMs = 0
    /\ EndMs = 0
    /\ room.isLive
    /\ dateNow = MaxTime + 1

\* C10: the live flag does not override an ended window: with endMs # 0 and
\* now >= endMs the state is never CURRENT, and a room that is ENDED without
\* the live flag is ENDED with it.
C10_LiveDoesNotReopen ==
    roomState # "none" =>
        /\ (EndMs # 0 /\ dateNow >= EndMs) => roomState # "current"
        /\ (~room.isLive /\ roomState = "ended") =>
              getRoomState([room EXCEPT !.isLive = TRUE], dateNow) = "ended"
        /\ (room.isLive /\ getRoomState([room EXCEPT !.isLive = FALSE], dateNow) = "ended")
              => roomState = "ended"

C10_Witness ==
    /\ roomState = "ended"
    /\ room.isLive
    /\ StartMs # 0
    /\ StartMs < EndMs
    /\ dateNow > EndMs

\* C11 as stated: with the live flag set, a room with startMs # 0, now < startMs
\* and the end not yet passed is CURRENT (the operator opens early).
C11_LivePromotesBeforeStart ==
    (/\ roomState # "none"
     /\ room.isLive
     /\ StartMs # 0
     /\ dateNow < StartMs
     /\ ~(EndMs # 0 /\ dateNow >= EndMs)) => roomState = "current"

\* C11 amended: the live flag promotes a room to CURRENT only from its start
\* on. Before a set start the state is UPCOMING with and without the live
\* flag; with the live flag set, the start unset or reached and the end unset
\* or not yet reached, the state is CURRENT.
C11_LivePromotesFromStartOn ==
    (roomState # "none" /\ room.isLive) =>
        /\ (StartMs # 0 /\ dateNow < StartMs) => roomState = "upcoming"
        /\ (~(StartMs # 0 /\ dateNow < StartMs) /\ ~(EndMs # 0 /\ dateNow >= EndMs))
              => roomState = "current"

\* A live room resolved before its start, the end still ahead.
C11_Witness ==
    /\ roomState = "upcoming"
    /\ room.isLive
    /\ StartMs # 0
    /\ dateNow < StartMs
    /\ EndMs > StartMs

\* The ids of the rooms of a bucket.
BucketIds(bucket) == {bucket[i].id : i \in 1..Len(bucket)}

\* The caller has a REGISTERED or WAITLISTED record for the room.
HasActiveRecord(id) == rsvpStatusOf(userRsvpsMap, id) \in {"registered", "waitlisted"}

\* The buckets in which the room is shown.
BucketsOf(id) ==
    {b \in {"yours", "upcoming", "current"} :
        \/ b = "yours" /\ id \in BucketIds(yourShows)
        \/ b = "upcoming" /\ id \in BucketIds(upcomingShows)
        \/ b = "current" /\ id \in BucketIds(currentShows)}

\* C12: the buckets Yours, Upcoming and Current are pairwise disjoint: a room
\* with an active record of the caller is only in Yours, a room without one
\* that is UPCOMING at now only in Upcoming, and a room without one that is
\* CURRENT at now only in Current; no bucket shows a room twice.
C12_BucketsDisjoint ==
    /\ BucketIds(yourShows) \cap BucketIds(upcomingShows) = {}
    /\ BucketIds(yourShows) \cap BucketIds(currentShows) = {}
    /\ BucketIds(upcomingShows) \cap BucketIds(currentShows) = {}
    /\ Cardinality(BucketIds(yourShows)) = Len(yourShows)
    /\ Cardinality(BucketIds(upcomingShows)) = Len(upcomingShows)
    /\ Cardinality(BucketIds(currentShows)) = Len(currentShows)
    /\ \A i \in 1..Len(rooms) :
          LET r == rooms[i]
          IN  /\ HasActiveRecord(r.id) => BucketsOf(r.id) = {"yours"}
              /\ (~HasActiveRecord(r.id) /\ getRoomState(r, nowMs) = "upcoming")
                    => BucketsOf(r.id) = {"upcoming"}
              /\ (~HasActiveRecord(r.id) /\ getRoomState(r, nowMs) = "current")
                    => BucketsOf(r.id) = {"current"}

\* A current room, an upcoming room the caller is waitlisted for and an
\* upcoming room whose record the caller cancelled: one in each bucket.
C12_Witness ==
    /\ Len(yourShows) = 1
    /\ Len(upcomingShows) = 1
    /\ Len(currentShows) = 1
    /\ getRoomState(yourShows[1], nowMs) = "upcoming"
    /\ rsvpStatusOf(userRsvpsMap, yourShows[1].id) = "waitlisted"
    /\ rsvpStatusOf(userRsvpsMap, upcomingShows[1].id) = "cancelled"

\* C13 as stated: a room that is ENDED at now is in none of the three buckets,
\* also when the caller holds an active record for it.
C13_EndedInNoBucket ==
    \A i \in 1..Len(rooms) :
        getRoomState(rooms[i], nowMs) = "ended" => BucketsOf(rooms[i].id) = {}

\* C13 amended: a room that is ENDED at now is neither in Upcoming nor in
\* Current; it is in Yours exactly when the caller holds an active record
\* for it.
C13_EndedOnlyInYours ==
    \A i \in 1..Len(rooms) :
        getRoomState(rooms[i], nowMs) = "ended" =>
            BucketsOf(rooms[i].id) =
                IF HasActiveRecord(rooms[i].id) THEN {"yours"} ELSE {}

\* An ended room with a record is shown in Yours, one without is not shown.
C13_Witness ==
    \E i, j \in 1..Len(rooms) :
        /\ getRoomState(rooms[i], nowMs) = "ended"
        /\ getRoomState(rooms[j], nowMs) = "ended"
        /\ rooms[i].id \in BucketIds(yourShows)
        /\ ~HasActiveRecord(rooms[j].id)
        /\ BucketsOf(rooms[j].id) = {}

\* (state rank at now, start with unset last, id) of a is below that of b.
SortKeyBelow(a, b) ==
    LET rankA == roomStateRank(getRoomState(a, nowMs))
        rankB == roomStateRank(getRoomState(b, nowMs))
        startA == getRoomWindow(a).startTimeMs
        startB == getRoomWindow(b).startTimeMs
        startBelow == startA # 0 /\ (startB = 0 \/ startA < startB)
    IN  \/ rankA < rankB
        \/ rankA = rankB /\ startBelow
        \/ rankA = rankB /\ startA = startB /\ localeCompare(a.id, b.id) < 0

\* (start with unset last, id) of a is below that of b.
StartKeyBelow(a, b) ==
    LET startA == getRoomWindow(a).startTimeMs
        startB == getRoomWindow(b).startTimeMs
    IN  \/ startA # 0 /\ (startB = 0 \/ startA < startB)
        \/ startA = startB /\ localeCompare(a.id, b.id) < 0

\* C14: in Yours the caller's last room, if it is in the bucket, is first, and
\* the remaining rooms are in ascending order of (roomStateRank of the state
\* at now, window start with unset last, id).
C14_YoursOrdered ==
    LET rest == SelectSeq(yourShows, LAMBDA r : r.id # lastRoomId)
    IN  /\ lastRoomId \in BucketIds(yourShows) => yourShows[1].id = lastRoomId
        /\ \A i, j \in 1..Len(rest) : i < j => SortKeyBelow(rest[i], rest[j])

\* Three rooms in Yours: the last room is first although it has ended, and
\* the other two follow by their state, against the order of their ids.
C14_Witness ==
    /\ Len(yourShows) = 3
    /\ yourShows[1].id = lastRoomId
    /\ getRoomState(yourShows[1], nowMs) = "ended"
    /\ getRoomState(yourShows[2], nowMs) = "current"
    /\ getRoomState(yourShows[3], nowMs) = "upcoming"
    /\ localeCompare(yourShows[3].id, yourShows[2].id) < 0

\* C15: at every tick Upcoming and Current are each in ascending order of
\* (window start with unset last, id), also when rooms changed their state
\* since the rooms list was sorted.
C15_BucketsOrdered ==
    /\ \A i, j \in 1..Len(upcomingShows) :
          i < j => StartKeyBelow(upcomingShows[i], upcomingShows[j])
    /\ \A i, j \in 1..Len(currentShows) :
          i < j => StartKeyBelow(currentShows[i], currentShows[j])

\* C16: when the joins of the user for the room are made in sequence (each
\* started after the one before had completed), the index entry after the
\* second and every later one has the firstSeen the first call wrote, which
\* is the time of that call, and the lastSeen and lastSessionKey of the
\* latest call, whose session record is stored.
C16_SequentialJoinsKeepFirstSeen ==
    (~overlapped /\ Len(joinWrites) >= 2) =>
        /\ audience_index.firstSeen = joinWrites[1].firstSeen
        /\ joinWrites[1].firstSeen = joinWrites[1].lastSeen
        /\ audience_index.lastSeen = Last(joinWrites).lastSeen
        /\ audience_index.lastSessionKey = Last(joinWrites).lastSessionKey
        /\ audience_index.lastSessionKey \in audience_data

\* Two joins in sequence, the second at a later time than the first.
C16_Witness ==
    /\ ~overlapped
    /\ Len(joinWrites) = 2
    /\ JoinsInFlight = {}
    /\ audience_index.firstSeen < audience_index.lastSeen
    /\ audience_index.lastSessionKey # joinWrites[1].lastSessionKey

\* C17: under every interleaving of the joins of the user for the room, once
\* the index entry has a firstSeen no later step changes it.
C17_FirstSeenNeverChanges ==
    [][audience_index # EmptyObject =>
          audience_index'.firstSeen = audience_index.firstSeen]_vars

\* C18: when get(roomRef) answers a recheck of the countdown gate and the
\* gate invokes join (a session key is pushed), the state resolved from the
\* re-fetched room is CURRENT, never UPCOMING or ENDED.
C18_GateJoinsOnlyCurrent ==
    [][\A c \in Pages :
          (GateRecheck(c) /\ nextKey' # nextKey) => latestState(c) = "current"]_vars

C20_RegisterSingleFlight ==
    [][\A c \in Pages :
          RegisterStart(c) => (pc[c] = "idle" /\ registeringRoom[c] = "")]_vars

\* A register is in flight on a page where an earlier one has completed, and
\* the sheet was closed by its backdrop while the call runs.
C20_Witness ==
    \E c \in Pages :
        /\ pc[c] # "idle"
        /\ registeringRoom[c] # ""
        /\ outcomes[c] # <<>>
        /\ selectedRoomForRsvp[c] = NoRoom

\* The seats and waitlist places the stored counters account for.
Counted(config) == MergeCfg(config).bookedCount + MergeCfg(config).waitlistCount

\* C21: with finitely many callers and a store that answers, every register
\* call that has started its transaction terminates, with REGISTERED,
\* WAITLISTED or REFUSED unless the store rejected a request of the call; it
\* ends REFUSED only by the abort on rsvpOpen = false, which stores nothing,
\* and otherwise only after its commit; a conflicting write makes the update
\* function run again on the stored value, and every commit raises exactly one
\* counter by one over the value stored at that moment, so that no increment
\* is lost or doubled.
C21_TransactionTerminates ==
    /\ \A c \in Clients : (pc[c] \in {"run", "sent", "write"}) ~> (pc[c] = "idle")
    /\ [][\A c \in Clients :
            /\ (pc[c] \in {"run", "sent", "write"} /\ pc'[c] = "idle") =>
                  /\ Len(outcomes'[c]) = Len(outcomes[c]) + 1
                  /\ Last(outcomes'[c]) \in {"registered", "waitlisted", "refused", "failed"}
                  /\ Last(outcomes'[c]) = "failed" => StoreFails(c)
            /\ (pc[c] = "sent" /\ pc'[c] = "write") =>
                  /\ Counted(rsvp_config') = Counted(rsvp_config) + 1
                  /\ MergeCfg(rsvp_config').bookedCount >= MergeCfg(rsvp_config).bookedCount
                  /\ MergeCfg(rsvp_config').waitlistCount >= MergeCfg(rsvp_config).waitlistCount
            /\ (pc[c] = "sent" /\ pc'[c] = "run") =>
                  (rsvp_config # seenCfg[c] /\ seenCfg'[c] = rsvp_config
                   /\ rsvp_config' = rsvp_config)
            /\ (pc[c] # "idle" /\ pc'[c] = "idle" /\ Last(outcomes'[c]) = "refused") =>
                  (pc[c] = "run" /\ MergeCfg(seenCfg[c]).rsvpOpen = FALSE
                   /\ rsvp_config' = rsvp_config)
            /\ (pc[c] # "idle" /\ pc'[c] = "idle"
                 /\ Last(outcomes'[c]) \in {"registered", "waitlisted"}) =>
                  pc[c] = "write"]_vars
    /\ [][Counted(rsvp_config') # Counted(rsvp_config) =>
            \E c \in Clients : pc[c] = "sent" /\ pc'[c] = "write"]_vars

\* A transaction of a session is about to run again on the value another
\* session's commit has stored, its first proposal having been rejected.
C21_Witness ==
    \E c \in Clients :
        /\ pc[c] = "run"
        /\ assignedStatus[c] # ""
        /\ seenCfg[c] = rsvp_config
        /\ Counted(rsvp_config) >= 1

\* C22: the capacity being fixed, seats go in commit order: no transaction
\* commits REGISTERED once a transaction has committed WAITLISTED (the
\* waitlist counter is still 0 at every commit that grants a seat, and a
\* commit that waitlists finds the seats taken), and in every state
\* waitlistCount > 0 implies bookedCount >= capacity.
C22_SeatsInCommitOrder ==
    /\ [](Ledger.waitlistCount > 0 =>
              (Ledger.capacity > 0 /\ Ledger.bookedCount >= Ledger.capacity))
    /\ [][\A c \in Clients :
            (pc[c] = "sent" /\ pc'[c] = "write") =>
                /\ assignedStatus[c] = "registered" =>
                      /\ Ledger.waitlistCount = 0
                      /\ MergeCfg(rsvp_config').bookedCount = Ledger.bookedCount + 1
                      /\ (Ledger.capacity > 0 => Ledger.bookedCount < Ledger.capacity)
                /\ assignedStatus[c] = "waitlisted" =>
                      /\ Ledger.capacity > 0
                      /\ Ledger.bookedCount >= Ledger.capacity
                      /\ MergeCfg(rsvp_config').waitlistCount = Ledger.waitlistCount + 1
                /\ MergeCfg(rsvp_config').capacity = Ledger.capacity]_vars

\* The seats of a room of capacity 1 are taken, one user is on the waitlist,
\* and a session that proposed a seat from the empty ledger waits for the
\* server's answer.
C22_Witness ==
    \E c \in Clients :
        /\ pc[c] = "sent"
        /\ assignedStatus[c] = "registered"
        /\ Ledger.capacity = 1
        /\ Ledger.bookedCount = 1
        /\ Ledger.waitlistCount >= 1

\* C23: a REFUSED outcome is terminal: the call that was refused has returned
\* with the busy flag clear and the error "RSVP is currently closed for this
\* room.", which is not the error of a store failure ("Failed to register.
\* Please retry."), and a session that is idle starts a transaction again only
\* by a press of the Confirm button.
C23_RefusedIsTerminal ==
    [][\A c \in Clients :
          /\ (pc[c] # "idle" /\ pc'[c] = "idle" /\ Last(outcomes'[c]) = "refused") =>
                /\ error'[c] = "RSVP is currently closed for this room."
                /\ error'[c] # "Failed to register. Please retry."
                /\ registeringRoom'[c] = ""
                /\ seenCfg'[c] = EmptyObject
          /\ (pc[c] # "idle" /\ pc'[c] = "idle" /\ Last(outcomes'[c]) = "failed") =>
                error'[c] = "Failed to register. Please retry."
          /\ (pc[c] = "idle" /\ pc'[c] # "idle") =>
                (RegisterStart(c) /\ pc'[c] = "get")
          /\ (pc[c] # "run" /\ pc'[c] = "run") => pc[c] \in {"get", "sent"}]_vars

\* One session was refused and shows the closed error, another one's store
\* request failed and shows the retry error; both are idle.
C23_Witness ==
    \E c, d \in Clients :
        /\ pc[c] = "idle" /\ outcomes[c] # <<>> /\ Last(outcomes[c]) = "refused"
        /\ error[c] = "RSVP is currently closed for this room."
        /\ pc[d] = "idle" /\ outcomes[d] # <<>> /\ Last(outcomes[d]) = "failed"
        /\ error[d] = "Failed to register. Please retry."

\* The room-side RSVP records stored.
RecordCount == Cardinality({u \in Users : roomRsvps[u] # ""})

\* C24: when record writes fail after the transaction committed and the user
\* registers again, the counters of the room exceed the number of its RSVP
\* records by at most one seat: with one session registering, one call after
\* the other, whatever calls failed, and no call in flight, bookedCount +
\* waitlistCount is at most the number of records plus one.
C24_DriftAtMostOne ==
    (/\ \A c \in Clients : pc[c] = "idle"
     /\ Cardinality(Callers) <= 1) =>
        Counted(rsvp_config) <= RecordCount + 1

\* The window end of the entry is set and not after the time.
EndPassed(r, now) ==
    getRoomWindow(r).endTimeMs # 0 /\ now >= getRoomWindow(r).endTimeMs

\* C25: bucket membership follows the clock alone: at a tick that changes
\* neither the rooms nor the caller's RSVP records, a room without an active
\* record that is in Upcoming and whose start is reached is in Current and no
\* longer in Upcoming, unless its end is reached too; and a room of Upcoming
\* or Current whose end is reached is in neither.
C25_BucketsFollowClock ==
    [][(nowMs' # nowMs /\ rooms' = rooms /\ userRsvpsMap' = userRsvpsMap) =>
          /\ \A i \in 1..Len(upcomingShows) :
                LET r == upcomingShows[i]
                IN  (/\ ~HasActiveRecord(r.id)
                     /\ getRoomWindow(r).startTimeMs # 0
                     /\ nowMs' >= getRoomWindow(r).startTimeMs) =>
                        /\ r.id \notin BucketIds(upcomingShows')
                        /\ ~EndPassed(r, nowMs') => r.id \in BucketIds(currentShows')
                        /\ EndPassed(r, nowMs') => r.id \notin BucketIds(currentShows')
          /\ \A i \in 1..Len(currentShows) :
                EndPassed(currentShows[i], nowMs') =>
                    /\ currentShows[i].id \notin BucketIds(upcomingShows')
                    /\ currentShows[i].id \notin BucketIds(currentShows')]_vars

\* The clock is at MaxTime: a scheduled room without a record and without an
\* end has come into Current at its start, and a room whose end is MaxTime
\* has left the buckets.
C25_Witness ==
    /\ nowMs = MaxTime
    /\ \E i \in 1..Len(currentShows) :
          /\ ~currentShows[i].isLive
          /\ getRoomWindow(currentShows[i]).startTimeMs = MaxTime - 1
    /\ \E i \in 1..Len(rooms) :
          /\ ~HasActiveRecord(rooms[i].id)
          /\ getRoomWindow(rooms[i]).startTimeMs = MaxTime - 1
          /\ EndPassed(rooms[i], nowMs)
          /\ rooms[i].id \notin BucketIds(upcomingShows) \cup BucketIds(currentShows)

\* C26: the gate invokes join only through a completed read of the room. A
\* rejected get(roomRef) pushes no session key and starts no join, sets the
\* error "Unable to open room right now. Please retry." and leaves the locked
\* room as it is; the expiry of the countdown itself starts no join; and a
\* session key is pushed only by a press of a card or by a recheck whose read
\* was answered, so a read that is never answered admits nobody.
C26_NoJoinWithoutRead ==
    /\ [][\A c \in Pages :
            /\ GateRecheckFails(c) =>
                  /\ nextKey' = nextKey
                  /\ joinPc' = joinPc
                  /\ joiningRoom' = joiningRoom
                  /\ audience_data' = audience_data
                  /\ error'[c] = "Unable to open room right now. Please retry."
                  /\ selectedLockedRoom' = selectedLockedRoom
            /\ TimerFinished(c) =>
                  (nextKey' = nextKey /\ joinPc' = joinPc /\ joiningRoom' = joiningRoom)]_vars
    /\ [][nextKey' # nextKey =>
            \E c \in Pages : RoomAction(c) \/ (GateRecheck(c) /\ rechecks[c] # <<>>)]_vars

\* The read of a recheck was rejected: the error is set, the room is still
\* locked on the page, no session key was ever pushed.
C26_Witness ==
    \E c \in Pages :
        /\ error[c] = "Unable to open room right now. Please retry."
        /\ selectedLockedRoom[c] # NoRoom
        /\ rechecks[c] = <<>>
        /\ nextKey = 1
        /\ audience_data = {}

\* C27: admission through the gate goes by the store alone: whenever a
\* recheck invokes join, the state resolved from the stored room (its own
\* event_config, none when none is stored) is not UPCOMING, at the time the
\* client's clock shows and at every earlier time the authoritative clock may
\* show when the client's clock is ahead.
C27_AdmissionFromStoreOnly ==
    [][\A c \in Pages :
          (GateRecheck(c) /\ nextKey' # nextKey) =>
              \A t \in 0..dateNow : getRoomState(room, t) # "upcoming"]_vars

\* The card pressed on the page and the state handleRoomAction resolves.
PressedEntry == rooms[1]
PressedState == getRoomState(PressedEntry, nowMs)

\* C28 as stated: pressing the card of an UPCOMING room the user has not
\* registered for arms the countdown gate with that room.
C28_UnregisteredArmsGate ==
    [][\A c \in Pages :
          (RoomAction(c) /\ PressedState = "upcoming" /\ ~isActiveRsvpStatus(userRsvps[c])) =>
              selectedLockedRoom'[c] = PressedEntry]_vars

\* C28: pressing the card of an UPCOMING room arms the countdown gate when the
\* user holds an active RSVP record for it: the room is locked on the page
\* and the countdown runs when the room has a start. For a room the user has
\* not registered for the RSVP sheet opens and the gate stays closed. Neither
\* starts a join.
C28_RegisteredArmsGate ==
    [][\A c \in Pages :
          (RoomAction(c) /\ PressedState = "upcoming") =>
              /\ isActiveRsvpStatus(userRsvps[c]) =>
                    /\ selectedLockedRoom'[c] = PressedEntry
                    /\ selectedRoomForRsvp'[c] = NoRoom
                    /\ timerSet'[c] = (getRoomWindow(PressedEntry).startTimeMs # 0)
              /\ ~isActiveRsvpStatus(userRsvps[c]) =>
                    /\ selectedRoomForRsvp'[c] = PressedEntry
                    /\ selectedLockedRoom'[c] = NoRoom
                    /\ ~timerSet'[c]
              /\ nextKey' = nextKey
              /\ joiningRoom' = joiningRoom]_vars

\* The registered user's upcoming room is locked on the page and its
\* countdown runs.
C28_Witness ==
    \E c \in Pages :
        /\ selectedLockedRoom[c] = PressedEntry
        /\ timerSet[c]
        /\ isActiveRsvpStatus(userRsvps[c])
        /\ getRoomState(selectedLockedRoom[c], nowMs) = "upcoming"

\* The joins of the page that have not returned.
JoinsOf(c) == {k \in JoinsInFlight : joinClient[k] = c}

\* C29 as stated: a room action goes by the state derived at the last tick:
\* on ENDED it starts neither join nor register and sets an error; on UPCOMING
\* it starts no join and opens the RSVP sheet or the countdown; it starts a
\* join on CURRENT only; and it does nothing while a join or a register of
\* the page is in flight.
C29_ActionGatedByState ==
    [][\A c \in Pages :
          RoomAction(c) =>
              /\ JoinsOf(c) = {}
              /\ pc[c] = "idle"
              /\ pc'[c] = "idle"
              /\ PressedState = "ended" =>
                    /\ nextKey' = nextKey
                    /\ joiningRoom' = joiningRoom
                    /\ error'[c] = "This show has ended."
                    /\ selectedRoomForRsvp' = selectedRoomForRsvp
                    /\ selectedLockedRoom' = selectedLockedRoom
              /\ PressedState = "upcoming" =>
                    /\ nextKey' = nextKey
                    /\ joiningRoom' = joiningRoom
                    /\ (selectedRoomForRsvp'[c] = PressedEntry
                        \/ selectedLockedRoom'[c] = PressedEntry)
              /\ nextKey' # nextKey => PressedState = "current"]_vars

\* The state handleRegisterForSelectedRoom resolves when it is invoked: the
\* one of the sheet's entry at Date.now().
SheetState(c) == getRoomState(selectedRoomForRsvp[c], dateNow)

\* C30 as stated: a register invoked for a room that resolves CURRENT or
\* ENDED reads and writes nothing and closes the sheet, and no increment of
\* the ledger commits while the state resolved from the stored room is not
\* UPCOMING.
C30_NoCommitUnlessUpcoming ==
    [][\A c \in Pages :
          /\ (RegisterStart(c) /\ SheetState(c) # "upcoming") =>
                /\ pc'[c] = "idle"
                /\ selectedRoomForRsvp'[c] = NoRoom
                /\ rsvp_config' = rsvp_config
                /\ roomRsvps' = roomRsvps
                /\ userRsvpsDb' = userRsvpsDb
          /\ (pc[c] = "sent" /\ pc'[c] = "write") =>
                getRoomState(room, dateNow) = "upcoming"]_vars

\* C30: a register invoked for a room whose entry on the page resolves
\* CURRENT or ENDED at that moment starts no store read, no transaction and
\* no record write, closes the sheet and sets "Registration closed for this
\* room."; a call goes on to the store only when the entry resolved UPCOMING
\* at the invocation, and the ledger is incremented only by the commit of
\* such a call (which may come after the room has opened).
C30_CheckedAtInvocation ==
    /\ [][\A c \in Pages :
            /\ (RegisterStart(c) /\ SheetState(c) # "upcoming") =>
                  /\ pc'[c] = "idle"
                  /\ registeringRoom'[c] = ""
                  /\ selectedRoomForRsvp'[c] = NoRoom
                  /\ error'[c] = "Registration closed for this room."
                  /\ rsvp_config' = rsvp_config
                  /\ roomRsvps' = roomRsvps
                  /\ userRsvpsDb' = userRsvpsDb
            /\ (pc[c] = "idle" /\ pc'[c] # "idle") =>
                  (RegisterStart(c) /\ SheetState(c) = "upcoming")]_vars
    /\ [][Counted(rsvp_config') # Counted(rsvp_config) =>
            \E c \in Pages : pc[c] = "sent" /\ pc'[c] = "write"]_vars

\* Confirm was pressed on a sheet whose room had opened since the sheet was
\* opened: the call was turned away, the sheet is closed, the ledger and the
\* records are untouched.
C30_Witness ==
    \E c \in Pages :
        /\ outcomes[c] # <<>>
        /\ Last(outcomes[c]) = "closed"
        /\ error[c] = "Registration closed for this room."
        /\ selectedRoomForRsvp[c] = NoRoom
        /\ pc[c] = "idle"
        /\ Counted(rsvp_config) = 0
        /\ \A u \in Users : roomRsvps[u] = ""

\* C31: only the register transaction writes rsvp_config: the steps of a
\* join, the countdown's expiry and recheck, the clock tick with its render,
\* the card, sheet and back actions and the record write leave rsvpOpen,
\* capacity, bookedCount and waitlistCount as they are; the stored value
\* changes only in the step in which a transaction commits.
C31_OnlyTransactionWritesConfig ==
    /\ [][rsvp_config' # rsvp_config =>
            \E c \in Pages : pc[c] = "sent" /\ pc'[c] = "write"]_vars
    /\ [][(\/ \E k \in Keys : SetSession(k) \/ GetIndex(k) \/ UpdateIndex(k)
                                \/ JoinNavigate(k) \/ JoinFails(k)
            \/ \E c \in Pages : TimerFinished(c) \/ GateRecheck(c) \/ GateRecheckFails(c)
                                 \/ WriteRecords(c) \/ RoomAction(c)
            \/ PageTick) =>
                MergeCfg(rsvp_config') = MergeCfg(rsvp_config)]_vars

\* A user was counted, the records are written, the user came through the
\* countdown gate and joined: the ledger holds the one committed seat.
C31_Witness ==
    \E c \in Pages :
        /\ roomRsvps[owner[c]] = "registered"
        /\ \E k \in Keys : joinPc[k] = "joined" /\ joinClient[k] = c
        /\ audience_index # EmptyObject
        /\ rsvp_config = [DEFAULT_RSVP_CONFIG EXCEPT !.bookedCount = 1]

\* The configuration the data model reads from a stored value: the fields
\* stored, and open, 100 seats and counters at 0 for the fields missing.
AsIfDefaulted(config) ==
    [f \in ConfigFields |->
        IF f \in DOMAIN config THEN config[f]
        ELSE CASE f = "rsvpOpen" -> TRUE
               [] f = "capacity" -> 100
               [] OTHER -> 0]

\* C32: a register transaction on a room with no stored rsvp_config, or with
\* fields missing, works on the stored fields and on open, capacity 100 and
\* counters 0 for the missing ones, and what it commits holds all four
\* fields; from an absent config on, the first 100 commits are REGISTERED and
\* the 101st is WAITLISTED.
C32_MissingFieldsDefaulted ==
    /\ [][LET cfg == AsIfDefaulted(rsvp_config)
              full == cfg.capacity > 0 /\ cfg.bookedCount >= cfg.capacity
          IN  /\ rsvp_config' =
                    IF full THEN [cfg EXCEPT !.waitlistCount = cfg.waitlistCount + 1]
                    ELSE [cfg EXCEPT !.bookedCount = cfg.bookedCount + 1]
              /\ Last(outcomes'[1]) = IF full THEN "waitlisted" ELSE "registered"
              /\ DOMAIN rsvp_config' = ConfigFields]_vars
    /\ [](LET n == Len(outcomes[1])
          IN  (/\ n >= 1
               /\ AsIfDefaulted(rsvp_config).capacity = 100
               /\ Counted(rsvp_config) = n) =>
                  \A i \in 1..n :
                      outcomes[1][i] = IF i <= 100 THEN "registered" ELSE "waitlisted")

\* The 101st registration on a room that had no rsvp_config has committed: it
\* is on the waitlist, the 100 seats are booked.
C32_Witness ==
    /\ Len(outcomes[1]) = 101
    /\ Last(outcomes[1]) = "waitlisted"
    /\ outcomes[1][100] = "registered"
    /\ rsvp_config = [rsvpOpen |-> TRUE, capacity |-> 100, bookedCount |-> 100,
                      waitlistCount |-> 1]

\* C33: every join call that completes has created one session record under
\* a key no earlier record has, records are never removed, and whenever the
\* index entry of the user exists its lastSessionKey is the key of a stored
\* session record written by a session of that user.
C33_LastSessionKeyIsARecord ==
    /\ [](\A k \in Keys : joinPc[k] = "joined" => k \in audience_data)
    /\ [](audience_index # EmptyObject =>
            /\ audience_index.lastSessionKey \in audience_data
            /\ owner[joinClient[audience_index.lastSessionKey]] = 1)
    /\ [][/\ audience_data \subseteq audience_data'
          /\ \A k \in Keys :
                (joinPc[k] = "set" /\ joinPc'[k] = "get") =>
                    /\ k \notin audience_data
                    /\ audience_data' = audience_data \cup {k}]_vars

\* Two joins of the user that ran interleaved have both completed; the index
\* entry names the record of the first, the record of the second exists too.
C33_Witness ==
    /\ overlapped
    /\ joinPc[1] = "joined"
    /\ joinPc[2] = "joined"
    /\ audience_data = {1, 2}
    /\ audience_index # EmptyObject
    /\ audience_index.lastSessionKey = 1

\* C34 as stated: with one room armed and the user pressing nothing, the
\* countdown's expiry has at most one recheck in flight and leads to at most
\* one invocation of join, hence to at most one session record.
C34_OneRecheckOneJoin ==
    \A c \in Pages :
        /\ Len(rechecks[c]) <= 1
        /\ Cardinality({k \in Keys : joinClient[k] = c}) <= 1
        /\ Cardinality(audience_data) <= 1

\* C35 as stated: when the register calls are those of one user on two
\* devices and no store request fails, the user is counted at most once (the
\* counters, which start at 0, sum to at most 1) and the status in the
\* user's records is the one of the counter that was incremented.
C35_SameUserCountedOnce ==
    (/\ owner[1] = owner[2]
     /\ Callers \subseteq {1, 2}
     /\ \A c \in Clients : Len(outcomes[c]) + (IF pc[c] = "idle" THEN 0 ELSE 1) <= 1
     /\ \A c \in Clients : "failed" \notin Range(outcomes[c])) =>
        /\ Ledger.bookedCount + Ledger.waitlistCount <= 1
        /\ roomRsvps[1] = "registered" => Ledger.bookedCount = 1
        /\ roomRsvps[1] = "waitlisted" => Ledger.waitlistCount = 1

\* C36: a register transaction that commits raises exactly one of
\* bookedCount and waitlistCount, by exactly 1, and leaves the other counter,
\* capacity and rsvpOpen as they were; a transaction that aborts, and a run
\* the server rejects, leave rsvp_config as it was; no step of any operation
\* lowers a counter.
C36_CommitAddsOne ==
    /\ [][\A c \in Clients :
            (pc[c] = "sent" /\ pc'[c] = "write") =>
                /\ \/ /\ MergeCfg(rsvp_config').bookedCount = Ledger.bookedCount + 1
                      /\ MergeCfg(rsvp_config').waitlistCount = Ledger.waitlistCount
                   \/ /\ MergeCfg(rsvp_config').waitlistCount = Ledger.waitlistCount + 1
                      /\ MergeCfg(rsvp_config').bookedCount = Ledger.bookedCount
                /\ MergeCfg(rsvp_config').capacity = Ledger.capacity
                /\ MergeCfg(rsvp_config').rsvpOpen = Ledger.rsvpOpen]_vars
    /\ [][\A c \in Clients :
            (pc[c] \in {"run", "sent"} /\ pc'[c] \in {"idle", "run"} /\ pc'[c] # pc[c]) =>
                rsvp_config' = rsvp_config]_vars
    /\ [][/\ MergeCfg(rsvp_config').bookedCount >= Ledger.bookedCount
          /\ MergeCfg(rsvp_config').waitlistCount >= Ledger.waitlistCount]_vars

\* A seat and a waitlist place were committed, the list was closed, and a
\* call was refused by the abort.
C36_Witness ==
    /\ Ledger.bookedCount = 1
    /\ Ledger.waitlistCount = 1
    /\ ~Ledger.rsvpOpen
    /\ \E c \in Clients : outcomes[c] # <<>> /\ Last(outcomes[c]) = "refused"

\* C37: the status a register call holds when its transaction commits is
\* the branch of the run that committed (REGISTERED when the commit raised
\* bookedCount, WAITLISTED when it raised waitlistCount), whatever earlier
\* runs the server rejected had assigned; the call keeps it until the record
\* write, and that status is the one written into both RSVP records and
\* reported to the user.
C37_StatusOfCommittedRun ==
    /\ [][\A c \in Clients :
            (pc[c] = "sent" /\ pc'[c] = "write") =>
                assignedStatus'[c] =
                    IF MergeCfg(rsvp_config').bookedCount > Ledger.bookedCount
                    THEN "registered" ELSE "waitlisted"]_vars
    /\ [][\A c \in Clients :
            (pc[c] = "write" /\ pc'[c] = "write") =>
                assignedStatus'[c] = assignedStatus[c]]_vars
    /\ [][\A c \in Clients :
            (pc[c] = "write" /\ pc'[c] = "idle" /\ Last(outcomes'[c]) # "failed") =>
                /\ roomRsvps'[owner[c]] = assignedStatus[c]
                /\ userRsvpsDb'[owner[c]] = assignedStatus[c]
                /\ userRsvps'[c] = assignedStatus[c]
                /\ Last(outcomes'[c]) = assignedStatus[c]
                /\ notice'[c] = IF assignedStatus[c] = "registered"
                                THEN "Registered" ELSE "Added to waitlist"]_vars

\* A run of a call assigned REGISTERED and was rejected by the server: the
\* call is about to run again on the stored value, where the only seat is
\* taken, with the status of the discarded run still in its variable.
C37_Witness ==
    \E c \in Clients :
        /\ pc[c] = "run"
        /\ assignedStatus[c] = "registered"
        /\ seenCfg[c] = rsvp_config
        /\ Ledger.rsvpOpen
        /\ Ledger.capacity = 1
        /\ Ledger.bookedCount = 1

\* C38: the room's window and live flag being fixed, a room resolved ENDED
\* at a time is resolved ENDED at every later time, and a room resolved
\* CURRENT at a time is resolved UPCOMING at no later time.
C38_EndedIsAbsorbing ==
    /\ roomState = "ended" =>
          \A t \in Times : t >= dateNow => getRoomState(room, t) = "ended"
    /\ roomState = "current" =>
          \A t \in Times : t >= dateNow => getRoomState(room, t) # "upcoming"

\* A room with a window, not live, was resolved at the end of its window,
\* with later times to come.
C38_Witness ==
    /\ roomState = "ended"
    /\ ~room.isLive
    /\ getRoomWindow(room).startTimeMs # 0
    /\ getRoomWindow(room).startTimeMs < getRoomWindow(room).endTimeMs
    /\ dateNow = getRoomWindow(room).endTimeMs
    /\ dateNow < MaxTime

\* C39: in every state of the page at most one of the room selected for the
\* RSVP sheet and the room selected for the locked countdown is set, and no
\* step (room action, register completion, gate expiry, back, go home) sets
\* one of them while the other stays set.
C39_OneSelectionAtMost ==
    /\ [](\A c \in Clients :
            selectedRoomForRsvp[c] = NoRoom \/ selectedLockedRoom[c] = NoRoom)
    /\ [][\A c \in Clients :
            /\ (selectedRoomForRsvp'[c] # NoRoom /\ selectedRoomForRsvp[c] = NoRoom) =>
                    selectedLockedRoom'[c] = NoRoom
            /\ (selectedLockedRoom'[c] # NoRoom /\ selectedLockedRoom[c] = NoRoom) =>
                    selectedRoomForRsvp'[c] = NoRoom]_vars

\* The sheet was opened, the register completed and closed it, and the room
\* action then armed the countdown for the room.
C39_Witness ==
    \E c \in Pages :
        /\ outcomes[c] # <<>>
        /\ Last(outcomes[c]) \in {"registered", "waitlisted"}
        /\ selectedLockedRoom[c] # NoRoom
        /\ selectedRoomForRsvp[c] = NoRoom
        /\ pc[c] = "idle"

\* C40: every register invocation that sets registeringRoom clears it in the
\* end, whatever its outcome; the flag is clear whenever no register is
\* running, every return of the handler (registered, waitlisted, already
\* registered, refused, store failure) clears it; and a join that fails
\* clears joiningRoom.
C40_BusyFlagsReleased ==
    /\ \A c \in Pages : (registeringRoom[c] # "") ~> (registeringRoom[c] = "")
    /\ [](\A c \in Clients : pc[c] = "idle" => registeringRoom[c] = "")
    /\ [][\A c \in Clients :
            (pc[c] # "idle" /\ pc'[c] = "idle") =>
                /\ registeringRoom[c] # ""
                /\ registeringRoom'[c] = ""
                /\ Last(outcomes'[c]) \in {"registered", "waitlisted", "already registered",
                                            "already waitlisted", "refused", "failed"}]_vars
    /\ [][\A k \in Keys :
            (joinPc[k] # "failed" /\ joinPc'[k] = "failed") =>
                joiningRoom'[joinClient[k]] = ""]_vars

\* The record write of a register was rejected after its commit and, later,
\* a join of the page failed: both busy flags are clear.
C40_Witness ==
    \E c \in Pages :
        /\ "failed" \in Range(outcomes[c])
        /\ Counted(rsvp_config) >= 1
        /\ registeringRoom[c] = ""
        /\ \E k \in Keys : joinClient[k] = c /\ joinPc[k] = "failed"
        /\ joiningRoom[c] = ""

====
